---- MODULE Spec2Model ----
(***************************************************************************)
(* Model of the Proofly checker: the client-side upload / poll workflow of *)
(* FileUrlInputNew (checkSessionStatus and its callers), the page that     *)
(* receives the results, the formatter of the results, the log of API      *)
(* calls, and the server-side proxy routes (upload-url, session info,      *)
(* session status, original-image, face).                                  *)
(*                                                                         *)
(* Text (URLs, identifiers, storage paths) is a sequence of one-character  *)
(* strings, so that the regular expressions and the string tests of the    *)
(* routes are computed and not assumed.                                    *)
(***************************************************************************)
EXTENDS Integers, Sequences, FiniteSets, TLC

VARIABLES
  \* FileUrlInputNew (component state) and Home (page state)
  pc,            \* where the submit / poll task is suspended
  status,        \* checkSessionStatus: let status
  attempts,      \* checkSessionStatus: let attempts
  isUploading,   \* useState isUploading
  isProcessing,  \* useState isProcessing
  error,         \* useState error ("undefined" or the message)
  currentStage,  \* useState currentStage of FileUrlInputNew
  sessionInfo,   \* Home: useState sessionInfo (undefined or some(payload))
  pageStage,     \* Home: useState currentStage
  \* history of the current run of checkSessionStatus
  queries,       \* getSessionStatus calls issued
  infoFetches,   \* getSessionInfo calls issued
  completeCalls, \* onAnalysisComplete calls made
  returned,      \* last status a query returned ("none" before the first)
  onlyInFlight,  \* every query so far returned an in-flight status
  outcome,       \* how the run ended: "none", "results", "timeout", "failed", "threw", "silent"
  lastAttempt,   \* value of attempts when the last query returned
  runs,          \* submissions and retries started so far
  inputType,     \* useState inputType
  fileHeld,      \* fileData?.file is set
  isValidUrl,    \* useState isValidUrl
  sessionUuid,   \* useState sessionUuid ("null" or the identifier)
  uploadAnswer,  \* how the upload of this run was answered (kind "none": not yet)
  polledUuid     \* the uuid argument of checkSessionStatus ("null": not called)

pollVars == <<pc, status, attempts, isUploading, isProcessing, error, currentStage,
              sessionInfo, pageStage, queries, infoFetches, completeCalls,
              returned, onlyInFlight, outcome, lastAttempt, runs,
              inputType, fileHeld, isValidUrl, sessionUuid, uploadAnswer,
              polledUuid>>

\* POST /api/proofly/upload-url (one request at a time; the handler keeps no state
\* between requests)
VARIABLES
  uPc,           \* "idle", "resolving", "fetching", "uploading", "responded"
  url,           \* the url of the request body
  resolvedIp,    \* const resolvedIp (null, or the address)
  fetchHost,     \* host the image fetch is addressed to (changes on a redirect)
  hops,          \* redirects the image fetch has followed
  fetched,       \* addresses the image fetch has connected to
  guards,        \* the guards evaluated so far, in order, with their results
  uploadIssued,  \* axios.post(`${API_BASE_URL}/upload`) was called
  uResponse      \* HTTP status answered (0: none yet)

urlVars == <<uPc, url, resolvedIp, fetchHost, hops, fetched, guards, uploadIssued,
             uResponse>>

\* The proxy routes that take a session identifier (one request at a time)
VARIABLES
  rPc,           \* "idle", "session" (awaiting GET {base}/{uuid}), "storage", "responded"
  route,         \* "info", "status", "original-image", "face"
  reqUuid,       \* the uuid path parameter
  reqFaceId,     \* the faceId path parameter (face route)
  reqPath,       \* request.nextUrl.pathname (face route, which reads it)
  rChecks,       \* face route: the tests of the request made, in order
  upstreamCalls, \* requests issued to the upstream API, in order
  rSession,      \* the session payload upstream answered with (undefined or some)
  targetFace,    \* face route: the face selected from the session (undefined or some)
  storageAnswer, \* how the storage fetch was last answered ("": not yet)
  sessionFailure, \* status the first upstream request failed with (-1: it has not)
  rResponse,     \* HTTP status answered (0: none yet)
  rBody          \* what the response body is made of ("": none yet)

proxyVars == <<rPc, route, reqUuid, reqFaceId, reqPath, rChecks, upstreamCalls, rSession, targetFace,
               storageAnswer, sessionFailure, rResponse, rBody>>

serverVars == <<urlVars, proxyVars>>

\* FileUrlInputNew and Home with every submit / retry task that is in flight:
\* a task is one call of handleFileUpload / handleUrlUpload (with the
\* checkSessionStatus it awaits) or the checkSessionStatus of handleRetry.
VARIABLES
  tasks,         \* the tasks started so far, in order
  nextUuid,      \* the identifier upstream gives to the next session it creates
  submissions,   \* submissions started: submit, a retry that uploads, 'Upload new image'
  mounted,       \* FileUrlInputNew is rendered by Home
  mount,         \* which instance of FileUrlInputNew is (or was last) mounted
  cIsUploading,  \* useState isUploading of the mounted instance
  cIsProcessing, \* useState isProcessing
  cError,        \* useState error ("undefined" or the message)
  cSessionUuid,  \* useState sessionUuid (0: null)
  cInputType,    \* useState inputType
  cFileHeld,     \* fileData?.file is set
  cIsValidUrl,   \* useState isValidUrl
  hSessionInfo,  \* Home: useState sessionInfo (0: undefined, or the session it is of)
  hStage,        \* Home: useState currentStage
  lastChange     \* the last poll loop that changed what is displayed

taskVars == <<tasks, nextUuid, submissions, mounted, mount, cIsUploading,
              cIsProcessing, cError, cSessionUuid, cInputType, cFileHeld,
              cIsValidUrl, hSessionInfo, hStage, lastChange>>

\* lib/api/proofly.ts: the module-level log of API calls
VARIABLES
  apiLogs,       \* export const apiLogs, newest entry first
  logged         \* logApiCall calls made so far

logVars == <<apiLogs, logged>>

\* lib/types/proofly.ts: one call of formatAnalysisResults
VARIABLES
  fPc,           \* "idle" (no call), "called" (sessionInfo given), "returned"
  fSession,      \* the sessionInfo argument
  fResults       \* the AnalysisResult[] returned (<<>> before the return)

formatVars == <<fPc, fSession, fResults>>

exceptPoll == <<serverVars, taskVars, logVars, formatVars>>

exceptUrl == <<pollVars, proxyVars, taskVars, logVars, formatVars>>

exceptProxy == <<pollVars, urlVars, taskVars, logVars, formatVars>>

exceptTasks == <<pollVars, serverVars, logVars, formatVars>>

exceptLog == <<pollVars, serverVars, taskVars, formatVars>>

exceptFormat == <<pollVars, serverVars, taskVars, logVars>>

vars == <<pollVars, urlVars, proxyVars, taskVars, logVars, formatVars>>

\* No request is being handled by POST /upload-url.
idleUrl ==
  /\ uPc = "idle"
  /\ url = [given |-> FALSE, parses |-> FALSE, protocol |-> "", host |-> "", length |-> 0]
  /\ resolvedIp = <<>>
  /\ fetchHost = ""
  /\ hops = 0
  /\ fetched = {}
  /\ guards = <<>>
  /\ uploadIssued = FALSE
  /\ uResponse = 0

\* No request is being handled by a session route.
idleProxy ==
  /\ rPc = "idle"
  /\ route = ""
  /\ reqUuid = <<>>
  /\ reqFaceId = <<>>
  /\ reqPath = <<>>
  /\ rChecks = <<>>
  /\ upstreamCalls = <<>>
  /\ rSession = <<>>
  /\ targetFace = <<>>
  /\ storageAnswer = ""
  /\ sessionFailure = -1
  /\ rResponse = 0
  /\ rBody = ""

\* No task has been started; Home shows a fresh FileUrlInputNew.
idleTasks ==
  /\ tasks = <<>>
  /\ nextUuid = 1
  /\ submissions = 0
  /\ mounted = TRUE
  /\ mount = 1
  /\ cIsUploading = FALSE
  /\ cIsProcessing = FALSE
  /\ cError = "undefined"
  /\ cSessionUuid = 0
  /\ cInputType = "file"
  /\ cFileHeld = FALSE
  /\ cIsValidUrl = FALSE
  /\ hSessionInfo = 0
  /\ hStage = "initial"
  /\ lastChange = [by |-> 0, submission |-> 0, latest |-> 0]

\* Nothing has been logged.
idleLog ==
  /\ apiLogs = <<>>
  /\ logged = 0

\* formatAnalysisResults is not being called.
idleFormat ==
  /\ fPc = "idle"
  /\ fSession = [status |-> "completed", hasFaces |-> FALSE, faces |-> <<>>]
  /\ fResults = <<>>

\* No submission has been made in FileUrlInputNew, and Home shows the input.
idlePoll ==
  /\ pc = "idle"
  /\ status = "processing"
  /\ attempts = 0
  /\ isUploading = FALSE
  /\ isProcessing = FALSE
  /\ error = "undefined"
  /\ currentStage = "initial"
  /\ sessionInfo = <<>>
  /\ pageStage = "initial"
  /\ queries = 0
  /\ infoFetches = 0
  /\ completeCalls = 0
  /\ returned = "none"
  /\ onlyInFlight = TRUE
  /\ outcome = "none"
  /\ lastAttempt = 0
  /\ runs = 0
  /\ inputType = "file"
  /\ fileHeld = FALSE
  /\ isValidUrl = FALSE
  /\ sessionUuid = "null"
  /\ uploadAnswer = [kind |-> "none", uuid |-> <<>>]
  /\ polledUuid = "null"

----------------------------------------------------------------------------
(* Bounds *)

MaxRuns == 2

\* Redirects the image fetch may follow before axios gives up.
MaxHops == 2

\* Faces in a session's face list, as seen by the face route.
MaxFaces == 2

----------------------------------------------------------------------------
(* Session statuses, lib/types/proofly.ts *)

InFlightStatuses == {"uploading", "processing", "in progress"}

TerminalStatuses == {"completed", "done", "no faces found", "failed"}

\* response.data.status is whatever upstream sends: "queued" stands for a value
\* outside the declared union.
ReturnedStatuses == InFlightStatuses \cup TerminalStatuses \cup {"queued"}

\* An optional value: <<>> is undefined, <<v>> is v.
undefined == <<>>

some(v) == <<v>>

\* String.prototype.startsWith and includes, on text.
startsWith(s, prefix) ==
  /\ Len(prefix) <= Len(s)
  /\ SubSeq(s, 1, Len(prefix)) = prefix

includes(s, part) ==
  \E i \in 1..(Len(s) - Len(part) + 1) : SubSeq(s, i, i + Len(part) - 1) = part

\* Text literals used below.
txtImageSlash == <<"i","m","a","g","e","/">>

txtImagePng == <<"i","m","a","g","e","/","p","n","g">>

txtImageUpper == <<"I","M","A","G","E","/","p","n","g">>

txtTextHtml == <<"t","e","x","t","/","h","t","m","l">>

txtDotDot == <<".",".">>

txtSlashSlash == <<"/","/">>

txtPct2e2e == <<"%","2","e","%","2","e">>

txtDot == <<".">>

txtStorageFaces == <<"/","s","t","o","r","a","g","e","/","f","a","c","e","s","/">>

txtStorageOriginal == <<"/","s","t","o","r","a","g","e","/","o","r","i","g","i","n","a","l","/">>

txtDotStorageOriginal == <<".","/","s","t","o","r","a","g","e","/","o","r","i","g","i","n","a","l","/">>

txtDotJpg == <<".","j","p","g">>

uuidLower == <<"1","2","3","e","4","5","6","7","-","e","8","9","b","-","1","2","d","3","-","a","4","5","6","-","4","2","6","6","1","4","1","7","4","0","0","0">>

uuidUpper == <<"1","2","3","E","4","5","6","7","-","E","8","9","B","-","1","2","D","3","-","A","4","5","6","-","4","2","6","6","1","4","1","7","4","A","B","C">>

idShort == <<"1","2","3","e","4","5","6","7">>

idNotHex == <<"1","2","3","e","4","5","6","7","-","e","8","9","b","-","1","2","d","3","-","a","4","5","6","-","4","2","6","6","1","4","1","7","4","0","0","g">>

idNoDashes == <<"1","2","3","e","4","5","6","7","e","8","9","b","1","2","d","3","a","4","5","6","4","2","6","6","1","4","1","7","4","0","0","0","a","b","c","d">>

idTraversal == <<".",".","/",".",".","/","a","d","m","i","n">>

idEncodedTraversal == <<"%","2","E","%","2","e","%","2","f","a","d","m","i","n">>

pathFaces2 == <<"/","s","t","o","r","a","g","e","/","f","a","c","e","s","/","a","b","c","_","2",".","p","n","g">>

pathFaces3 == <<"/","s","t","o","r","a","g","e","/","f","a","c","e","s","/","a","b","c","_","3",".","p","n","g">>

pathFaces03 == <<"/","s","t","o","r","a","g","e","/","f","a","c","e","s","/","a","b","c","_","0","3",".","p","n","g">>

pathOriginal3 == <<".","/","s","t","o","r","a","g","e","/","o","r","i","g","i","n","a","l","/","a","b","c","_","3",".","j","p","e","g">>

pathTraversal3 == <<"/","s","t","o","r","a","g","e","/","f","a","c","e","s","/",".",".","/","k","e","y","s","_","3",".","p","n","g">>

pathDoubleSlash3 == <<"/","s","t","o","r","a","g","e","/","f","a","c","e","s","/","/","a","b","c","_","3",".","p","n","g">>

pathElsewhere3 == <<"/","t","m","p","/","a","b","c","_","3",".","p","n","g">>

pathNoIndex == <<"/","s","t","o","r","a","g","e","/","f","a","c","e","s","/","a","b","c",".","p","n","g">>

pathNoExt2 == <<"/","s","t","o","r","a","g","e","/","f","a","c","e","s","/","x","y","z","_","2">>

imgOk == <<"/","s","t","o","r","a","g","e","/","o","r","i","g","i","n","a","l","/","a","b","c",".","j","p","g">>

imgDotOk == <<".","/","s","t","o","r","a","g","e","/","o","r","i","g","i","n","a","l","/","a","-","b","/","c","_","1",".","j","p","g">>

imgDoubleSlash == <<"/","s","t","o","r","a","g","e","/","o","r","i","g","i","n","a","l","/","/","a","b","c",".","j","p","g">>

imgElsewhere == <<"/","e","t","c","/","a","b","c",".","j","p","g">>

imgPng == <<"/","s","t","o","r","a","g","e","/","o","r","i","g","i","n","a","l","/","a","b","c",".","p","n","g">>

imgTraversal == <<"/","s","t","o","r","a","g","e","/","o","r","i","g","i","n","a","l","/",".",".","/","a","b","c",".","j","p","g">>

idTooLong == uuidLower \o <<"0">>

txtApiProoflySession == <<"/","a","p","i","/","p","r","o","o","f","l","y","/","s","e","s","s","i","o","n","/">>

txtSession == <<"s","e","s","s","i","o","n">>

txtFace == <<"f","a","c","e">>

txtSlashFaceSlash == <<"/","f","a","c","e","/">>

txtSlashFaces == <<"/","f","a","c","e","s","/">>

txtSlash == <<"/">>

txtSlashExtra == <<"/","e","x","t","r","a">>

\* Faces of a session payload.  Probabilities are in thousandths (920 is 0.92).
\* is_real_model is the map of the is_real_model_<n> fields the face carries,
\* metrics the optional metrics list, verdict '' when the face has none.
faceA ==
  [ansamble |-> some(920), realProbability |-> undefined,
   is_real_model |-> [i \in {1, 2} |-> 100 * i], metrics |-> undefined,
   verdict |-> "", face_path |-> some(pathFaces3)]

faceB ==
  [ansamble |-> undefined, realProbability |-> some(40),
   is_real_model |-> [i \in {} |-> 0],
   metrics |-> some(<<[name |-> "Texture", probability |-> 30]>>),
   verdict |-> "Fake", face_path |-> some(pathFaces2)]

\* Session payloads GET /session/{uuid} can return.  hasFaces = FALSE is a payload
\* without the optional faces field.
SessionInfos ==
  { [status |-> "completed",      hasFaces |-> TRUE,  faces |-> <<faceA, faceB>>],
    [status |-> "done",           hasFaces |-> TRUE,  faces |-> <<faceB>>],
    [status |-> "no faces found", hasFaces |-> TRUE,  faces |-> <<>>],
    [status |-> "no faces found", hasFaces |-> FALSE, faces |-> <<>>] }

----------------------------------------------------------------------------
(* FileUrlInputNew: checkSessionStatus *)

maxAttempts == 60

InFlight(s) == s \in InFlightStatuses

\* The while condition re-evaluated after a query returned s as the a-th answer,
\* together with the break on 'no faces found'.
LoopContinuesOffByOne(s, a) ==
  /\ InFlight(s)
  /\ a <= maxAttempts
  /\ s # "no faces found"

LoopContinues(s, a) ==
  /\ InFlight(s)
  /\ a < maxAttempts
  /\ s # "no faces found"

\* The session information fetched for a failed session too.
AfterLoopFetchOnFailed(s, a) ==
  IF a >= maxAttempts THEN "timeout"
  ELSE IF s \in {"completed", "done", "failed"} THEN "fetch"
  ELSE IF s = "no faces found" THEN "fetch"
  ELSE "silent"

\* What follows the loop: the attempts check comes first, then the status.
AfterLoop(s, a) ==
  IF a >= maxAttempts THEN "timeout"
  ELSE IF s \in {"completed", "done"} THEN "fetch"
  ELSE IF s = "no faces found" THEN "fetch"
  ELSE IF s = "failed" THEN "failed"
  ELSE "silent"

catchMessage(kind) ==
  CASE kind = "timeout" -> "Error: Processing timeout exceeded"
    [] kind = "failed"  -> "Error: Image processing failed"
    [] kind = "status"  -> "Error: Error getting session status"
    [] kind = "info"    -> "Error: Error getting session information"

\* useEffect of FileUrlInputNew; sessionUuid is set whenever a poll runs.
stageEffect(err, processing, uploading, held, uuid, cur) ==
  IF err # "undefined" THEN "error"
  ELSE IF processing THEN "processing"
  ELSE IF uploading THEN "uploading"
  ELSE IF ~held /\ uuid = "null" THEN "initial"
  ELSE cur

\* useEffect of Home; its own error, isProcessing, isUploading and file never change.
pageEffect(info, cur) ==
  IF info # undefined THEN "results"
  ELSE "initial"

----------------------------------------------------------------------------
(* lib/types/proofly.ts: formatAnalysisResults, and what AnalysisResults shows *)

\* The thresholds taken as inclusive.
verdictOfInclusive(ensembleReal) ==
  IF ensembleReal >= 950 THEN "Likely Real"
  ELSE IF ensembleReal >= 700 THEN "Probably Real"
  ELSE IF ensembleReal >= 300 THEN "Uncertain"
  ELSE IF ensembleReal >= 50 THEN "Probably Deepfake"
  ELSE "Likely Deepfake"

verdictOf(ensembleReal) ==
  IF ensembleReal > 950 THEN "Likely Real"
  ELSE IF ensembleReal > 700 THEN "Probably Real"
  ELSE IF ensembleReal > 300 THEN "Uncertain"
  ELSE IF ensembleReal > 50 THEN "Probably Deepfake"
  ELSE "Likely Deepfake"

\* 1 - x of an optional number; undefined stays undefined (NaN in the code).
complement(x) == IF x = undefined THEN undefined ELSE some(1000 - x[1])

\* Ten entries whatever the face carries.
modelProbabilitiesAlwaysTen(face) ==
  [i \in 1..10 |->
     LET realProb == IF i \in DOMAIN face.is_real_model
                       THEN face.is_real_model[i] ELSE 500
     IN [model |-> <<"Model", i>>, realProbability |-> realProb,
         fakeProbability |-> 1000 - realProb]]

\* An absent model field read as 0 instead of 0.5.
modelProbabilitiesDefaultZero(face) ==
  IF DOMAIN face.is_real_model # {}
    THEN [i \in 1..10 |->
            LET realProb == IF i \in DOMAIN face.is_real_model
                              THEN face.is_real_model[i] ELSE 0
            IN [model |-> <<"Model", i>>, realProbability |-> realProb,
                fakeProbability |-> 1000 - realProb]]
  ELSE <<>>

modelProbabilitiesOf(face) ==
  IF DOMAIN face.is_real_model # {}
    THEN [i \in 1..10 |->
            LET realProb == IF i \in DOMAIN face.is_real_model
                              THEN face.is_real_model[i] ELSE 500
            IN [model |-> <<"Model", i>>, realProbability |-> realProb,
                fakeProbability |-> 1000 - realProb]]
  ELSE IF face.metrics # undefined
    THEN [k \in 1..Len(face.metrics[1]) |->
            [model |-> <<face.metrics[1][k].name, 0>>,
             realProbability |-> face.metrics[1][k].probability,
             fakeProbability |-> 1000 - face.metrics[1][k].probability]]
  ELSE <<>>

formatFace(face, index) ==
  LET ensembleReal == IF face.ansamble # undefined THEN face.ansamble
                      ELSE face.realProbability
  IN [faceIndex |-> index + 1,
      facePath |-> IF face.face_path = undefined THEN <<>> ELSE face.face_path[1],
      ensembleProbability |-> [real |-> ensembleReal, fake |-> complement(ensembleReal)],
      modelProbabilities |-> modelProbabilitiesOf(face),
      verdict |-> IF face.verdict # "" THEN face.verdict
                  ELSE IF ensembleReal = undefined THEN "Likely Deepfake"
                  ELSE verdictOf(ensembleReal[1])]

\* The results in the reverse order of the faces.
formatAnalysisResultsReversed(info) ==
  IF ~info.hasFaces \/ Len(info.faces) = 0 THEN <<>>
  ELSE [i \in 1..Len(info.faces) |->
          formatFace(info.faces[Len(info.faces) + 1 - i], i - 1)]

formatAnalysisResults(info) ==
  IF ~info.hasFaces \/ Len(info.faces) = 0 THEN <<>>
  ELSE [i \in 1..Len(info.faces) |-> formatFace(info.faces[i], i - 1)]

\* `${n}` of a non-negative integer: its decimal digits.
RECURSIVE numberToText(_)
numberToText(n) ==
  LET digitText == <<"0", "1", "2", "3", "4", "5", "6", "7", "8", "9">>
  IN IF n < 10 THEN <<digitText[n + 1]>>
     ELSE numberToText(n \div 10) \o <<digitText[(n % 10) + 1]>>

\* FaceAnalysisResult: prooflyApi.getFaceImageUrl(sessionUuid, result.faceIndex - 1),
\* the face index segment of the URL requested for the result 'Face faceIndex'.
faceImageFaceId(faceIndex) == numberToText(faceIndex - 1)

\* AnalysisResults: the 'No faces detected in the image' alert.
showsNoFacesNotice(info) == ~info.hasFaces \/ Len(info.faces) = 0

\* Home renders AnalysisResults when currentStage === 'results' && sessionInfo.
rendersResults == pageStage = "results" /\ sessionInfo # undefined

----------------------------------------------------------------------------
(* The submit / poll task of FileUrlInputNew.  pc is the await the task is   *)
(* suspended at: "idle" (no task), "uploading" (prooflyApi.uploadImage or    *)
(* uploadUrl), "polling" (the 2 s pause and getSessionStatus), "fetching"    *)
(* (getSessionInfo), "stuck" (handleSubmit returned with isUploading set).   *)

newRun ==
  /\ queries' = 0
  /\ infoFetches' = 0
  /\ completeCalls' = 0
  /\ returned' = "none"
  /\ onlyInFlight' = TRUE
  /\ outcome' = "none"
  /\ lastAttempt' = 0
  /\ runs' = runs + 1
  /\ uploadAnswer' = [kind |-> "none", uuid |-> undefined]

sameRun == UNCHANGED <<runs, inputType, fileHeld, isValidUrl>>

\* The task goes on within the call of checkSessionStatus it is in.
sameCall == UNCHANGED <<uploadAnswer, polledUuid>>

inputHeld == (inputType = "file" /\ fileHeld) \/ (inputType = "url" /\ isValidUrl)

\* The form (tabs, inputs, submit button) is rendered only when nothing is
\* uploading or processing and no error is shown; the button needs a file or a
\* valid URL, whatever the selected tab.
handleSubmit ==
  /\ UNCHANGED exceptPoll
  /\ pc = "idle" /\ pageStage = "initial" /\ runs < MaxRuns
  /\ ~isUploading /\ ~isProcessing /\ error = "undefined"
  /\ \E t \in {"file", "url"}, f \in BOOLEAN, v \in BOOLEAN :
       /\ f \/ v
       /\ inputType' = t /\ fileHeld' = f /\ isValidUrl' = v
       /\ pc' = IF (t = "file" /\ f) \/ (t = "url" /\ v) THEN "uploading" ELSE "stuck"
  /\ error' = "undefined"
  /\ isUploading' = TRUE
  /\ currentStage' = "uploading"
  /\ newRun
  /\ polledUuid' = "null"
  /\ UNCHANGED <<status, attempts, isProcessing, sessionInfo, pageStage, sessionUuid>>

\* What POST /api/proofly/upload (or upload-url) can answer the client with: no
\* 2xx answer (axios throws), and a 2xx body without uuid, with an empty uuid,
\* with a uuid.
UploadAnswers ==
  { [kind |-> "threw", uuid |-> undefined],
    [kind |-> "response", uuid |-> undefined],
    [kind |-> "response", uuid |-> some("")],
    [kind |-> "response", uuid |-> some("u1")] }

\* The uuid test taken as 'the field is present'.
uuidReceivedIfPresent(a) == a.kind = "response" /\ a.uuid # undefined

\* prooflyApi.uploadImage / uploadUrl return { uuid } and the handler goes on:
\* neither !response.data.uuid nor !response.uuid holds.
uuidReceived(a) == a.kind = "response" /\ a.uuid # undefined /\ a.uuid[1] # ""

\* handleFileUpload / handleUrlUpload: the upload answered with a uuid, and
\* checkSessionStatus starts (status = 'processing', attempts = 0, first pause).
uploadReturned(a) ==
  /\ UNCHANGED exceptPoll
  /\ pc = "uploading"
  /\ uuidReceived(a)
  /\ uploadAnswer' = a
  /\ sessionUuid' = a.uuid[1]
  /\ polledUuid' = a.uuid[1]
  /\ isUploading' = FALSE
  /\ isProcessing' = TRUE
  /\ status' = "processing"
  /\ attempts' = 0
  /\ pc' = "polling"
  /\ currentStage' = stageEffect(error, TRUE, FALSE, inputHeld, a.uuid[1], "processing")
  /\ sameRun
  /\ UNCHANGED <<error, sessionInfo, pageStage, queries, infoFetches, completeCalls,
                 returned, onlyInFlight, outcome, lastAttempt>>

\* handleFileUpload / handleUrlUpload: the upload threw or carried no uuid.
uploadFailed(a) ==
  /\ UNCHANGED exceptPoll
  /\ pc = "uploading"
  /\ ~uuidReceived(a)
  /\ uploadAnswer' = a
  /\ error' = "Error uploading image. Please try again."
  /\ isUploading' = FALSE
  /\ currentStage' = "error"
  /\ outcome' = "upload"
  /\ pc' = "idle"
  /\ sameRun
  /\ UNCHANGED <<status, attempts, isProcessing, sessionInfo, pageStage, sessionUuid,
                 polledUuid, queries, infoFetches, completeCalls, returned,
                 onlyInFlight, lastAttempt>>

\* The catch without the finally of checkSessionStatus.
pollThrewKeepsProcessing(kind) ==
  /\ error' = catchMessage(kind)
  /\ isProcessing' = isProcessing
  /\ isUploading' = FALSE
  /\ currentStage' = stageEffect(catchMessage(kind), isProcessing, FALSE, inputHeld, sessionUuid, "error")
  /\ pc' = "idle"

\* catch and finally of checkSessionStatus, then finally of the upload handler.
pollThrew(kind) ==
  /\ error' = catchMessage(kind)
  /\ isProcessing' = FALSE
  /\ isUploading' = FALSE
  /\ currentStage' = stageEffect(catchMessage(kind), FALSE, FALSE, inputHeld, sessionUuid, "error")
  /\ pc' = "idle"

\* One turn of the while loop: pause, getSessionStatus answers s, attempts++,
\* then everything up to the next await.
pollQuery(s) ==
  /\ UNCHANGED exceptPoll
  /\ pc = "polling"
  /\ status' = s
  /\ attempts' = attempts + 1
  /\ queries' = queries + 1
  /\ returned' = s
  /\ lastAttempt' = attempts + 1
  /\ onlyInFlight' = (onlyInFlight /\ InFlight(s))
  /\ IF LoopContinues(s, attempts + 1)
       THEN /\ pc' = "polling"
            /\ UNCHANGED <<error, isProcessing, isUploading, currentStage,
                           outcome, infoFetches>>
       ELSE LET next == AfterLoop(s, attempts + 1) IN
            CASE next = "fetch" ->
                   /\ pc' = "fetching"
                   /\ infoFetches' = infoFetches + 1
                   /\ UNCHANGED <<error, isProcessing, isUploading, currentStage,
                                  outcome>>
              [] next \in {"timeout", "failed"} ->
                   /\ pollThrew(next)
                   /\ outcome' = next
                   /\ UNCHANGED infoFetches
              [] next = "silent" ->
                   /\ isProcessing' = FALSE
                   /\ isUploading' = FALSE
                   /\ currentStage' = stageEffect(error, FALSE, FALSE, inputHeld, sessionUuid, currentStage)
                   /\ pc' = "idle"
                   /\ outcome' = "silent"
                   /\ UNCHANGED <<error, infoFetches>>
  /\ sameRun /\ sameCall
  /\ UNCHANGED <<sessionInfo, pageStage, sessionUuid, completeCalls>>

\* getSessionStatus threw (network error, non-2xx answer).
pollQueryFailed ==
  /\ UNCHANGED exceptPoll
  /\ pc = "polling"
  /\ queries' = queries + 1
  /\ onlyInFlight' = FALSE
  /\ pollThrew("status")
  /\ outcome' = "threw"
  /\ sameRun /\ sameCall
  /\ UNCHANGED <<status, attempts, sessionInfo, pageStage, sessionUuid, infoFetches,
                 completeCalls, returned, lastAttempt>>

\* Home: handleAnalysisComplete
handleAnalysisComplete(data) ==
  /\ sessionInfo' = some(data)
  /\ pageStage' = pageEffect(some(data), "results")

\* getSessionInfo answered: onAnalysisComplete(sessionData), then the finally blocks.
infoReturned(data) ==
  /\ UNCHANGED exceptPoll
  /\ pc = "fetching"
  /\ handleAnalysisComplete(data)
  /\ completeCalls' = completeCalls + 1
  /\ isProcessing' = FALSE
  /\ isUploading' = FALSE
  /\ currentStage' = stageEffect(error, FALSE, FALSE, inputHeld, sessionUuid, currentStage)
  /\ outcome' = "results"
  /\ pc' = "idle"
  /\ sameRun /\ sameCall
  /\ UNCHANGED <<status, attempts, error, sessionUuid, queries, infoFetches,
                 returned, onlyInFlight, lastAttempt>>

\* getSessionInfo threw.
infoFailed ==
  /\ UNCHANGED exceptPoll
  /\ pc = "fetching"
  /\ pollThrew("info")
  /\ outcome' = "threw"
  /\ sameRun /\ sameCall
  /\ UNCHANGED <<status, attempts, sessionInfo, pageStage, sessionUuid, queries,
                 infoFetches, completeCalls, returned, onlyInFlight, lastAttempt>>

\* The 'Try again' button is rendered with the error, when nothing is uploading
\* or processing.  With the input still held it uploads again (error is not
\* cleared); otherwise it polls the session already obtained.
handleRetry ==
  /\ UNCHANGED exceptPoll
  /\ pc = "idle" /\ pageStage = "initial" /\ runs < MaxRuns
  /\ error # "undefined" /\ ~isUploading /\ ~isProcessing
  /\ IF inputHeld
       THEN /\ pc' = "uploading"
            /\ polledUuid' = "null"
            /\ UNCHANGED <<status, attempts, isProcessing, currentStage>>
       ELSE /\ sessionUuid # "null"
            /\ polledUuid' = sessionUuid
            /\ isProcessing' = TRUE
            /\ status' = "processing"
            /\ attempts' = 0
            /\ pc' = "polling"
            /\ currentStage' = stageEffect(error, TRUE, isUploading, inputHeld, sessionUuid, "processing")
  /\ newRun
  /\ UNCHANGED <<isUploading, error, sessionInfo, pageStage, sessionUuid,
                 inputType, fileHeld, isValidUrl>>

\* Home: handleNewUpload; the results view is replaced by a fresh FileUrlInputNew.
handleNewUpload ==
  /\ UNCHANGED exceptPoll
  /\ pageStage = "results" /\ pc = "idle"
  /\ sessionInfo' = undefined
  /\ pageStage' = "initial"
  /\ pc' = "idle"
  /\ status' = "processing"
  /\ attempts' = 0
  /\ isUploading' = FALSE
  /\ isProcessing' = FALSE
  /\ error' = "undefined"
  /\ currentStage' = "initial"
  /\ sessionUuid' = "null"
  /\ inputType' = "file"
  /\ fileHeld' = FALSE
  /\ isValidUrl' = FALSE
  /\ queries' = 0
  /\ infoFetches' = 0
  /\ completeCalls' = 0
  /\ returned' = "none"
  /\ onlyInFlight' = TRUE
  /\ outcome' = "none"
  /\ lastAttempt' = 0
  /\ uploadAnswer' = [kind |-> "none", uuid |-> undefined]
  /\ polledUuid' = "null"
  /\ UNCHANGED runs

InitPoll == idlePoll /\ idleUrl /\ idleProxy /\ idleTasks /\ idleLog /\ idleFormat

NextPoll ==
  \/ handleSubmit
  \/ \E a \in UploadAnswers : uploadReturned(a)
  \/ \E a \in UploadAnswers : uploadFailed(a)
  \/ \E s \in ReturnedStatuses : pollQuery(s)
  \/ pollQueryFailed
  \/ \E data \in SessionInfos : infoReturned(data)
  \/ infoFailed
  \/ handleRetry
  \/ handleNewUpload

SpecPoll == InitPoll /\ [][NextPoll]_vars

\* The awaited requests: each is answered or fails.
uploadAnswered == \E a \in UploadAnswers : uploadReturned(a) \/ uploadFailed(a)

statusAnswered == (\E s \in ReturnedStatuses : pollQuery(s)) \/ pollQueryFailed

infoAnswered == (\E data \in SessionInfos : infoReturned(data)) \/ infoFailed

\* The same behaviours, in which no awaited request stays unanswered forever.
\* What the user does (submit, retry, new upload) is left free.
SpecPollFair ==
  /\ InitPoll /\ [][NextPoll]_vars
  /\ WF_vars(uploadAnswered)
  /\ WF_vars(statusAnswered)
  /\ WF_vars(infoAnswered)

----------------------------------------------------------------------------
(* app/api/proofly/upload-url/route.ts: POST *)

\* Addresses: v = 4 with four octets, v = 6 with eight groups.
ip4(a, b, c, d) == [v |-> 4, o |-> <<a, b, c, d>>]

ip6Loopback == [v |-> 6, o |-> <<0, 0, 0, 0, 0, 0, 0, 1>>]

Addresses ==
  { ip4(127, 0, 0, 1), ip6Loopback, ip4(10, 0, 0, 5), ip4(172, 16, 0, 1),
    ip4(192, 168, 1, 1), ip4(169, 254, 169, 254), ip4(93, 184, 216, 34) }

\* Hostnames of submitted URLs and of redirect targets: two names, and literals.
Hosts == {"example.com", "rebind.test", "127.0.0.1", "10.0.0.5", "[::1]"}

\* What dns.lookup(hostname, {all: true}) can answer: a literal IPv4 address is
\* answered with itself, a bracketed IPv6 hostname is not found, a name is
\* answered by whatever its DNS serves at that moment (possibly nothing).
LookupAnswers(host) ==
  CASE host = "127.0.0.1" -> {<<ip4(127, 0, 0, 1)>>}
    [] host = "10.0.0.5"  -> {<<ip4(10, 0, 0, 5)>>}
    [] host = "[::1]"     -> {}
    [] OTHER -> {<<>>} \cup {<<a>> : a \in Addresses}
                  \cup {<<a, b>> : a \in Addresses, b \in Addresses}

\* The address a connection to `host` is made to when the fetch is issued: the
\* name is resolved again at that time.
ConnectAddresses(host) ==
  CASE host = "127.0.0.1" -> {ip4(127, 0, 0, 1)}
    [] host = "10.0.0.5"  -> {ip4(10, 0, 0, 5)}
    [] host = "[::1]"     -> {ip6Loopback}
    [] OTHER -> Addresses

maxUrlLength == 512

\* The request bodies: url missing or empty, not parseable, or a URL with a
\* protocol, a hostname and a length in characters.
Urls ==
  { [given |-> FALSE, parses |-> FALSE, protocol |-> "", host |-> "", length |-> 0],
    [given |-> TRUE, parses |-> FALSE, protocol |-> "", host |-> "", length |-> 7] }
  \cup
  { [given |-> TRUE, parses |-> TRUE, protocol |-> p, host |-> h, length |-> n] :
      p \in {"http:", "https:", "ftp:"}, h \in Hosts,
      n \in {30, maxUrlLength, maxUrlLength + 1} }

\* imageResponse.headers['content-type'] || '': the empty text when absent.
ContentTypes == {txtImagePng, txtImageUpper, txtTextHtml, <<>>}

isHttpOrHttps(u) == u.parses /\ u.protocol \in {"http:", "https:"}

isPrivateIpV4Only(host) == host = ip4(127, 0, 0, 1)

isPrivateIp(host) ==
  \/ host = ip4(127, 0, 0, 1)
  \/ host = ip6Loopback

\* safeResolveHost: addresses[0]?.address || null; null too when lookup throws.
safeResolveHost(answer) == IF Len(answer) = 0 THEN undefined ELSE some(answer[1])

isLikelyImageContentType(contentType) ==
  contentType # <<>> /\ startsWith(contentType, txtImageSlash)

guard(name, passed) == [name |-> name, passed |-> passed]

\* Steps 2 and 3 of the handler, in the order of the code, as the guards they
\* evaluate: the resolved address first, the URL length second.
resolveGuardsLengthFirst(u, ip) ==
  IF u.length > maxUrlLength THEN <<guard("length", FALSE)>>
  ELSE IF ip = undefined \/ isPrivateIp(ip[1])
    THEN <<guard("length", TRUE), guard("public", FALSE)>>
  ELSE <<guard("length", TRUE), guard("public", TRUE)>>

resolveGuards(u, ip) ==
  IF ip = undefined \/ isPrivateIp(ip[1]) THEN <<guard("public", FALSE)>>
  ELSE IF u.length > maxUrlLength
    THEN <<guard("public", TRUE), guard("length", FALSE)>>
  ELSE <<guard("public", TRUE), guard("length", TRUE)>>

allPassed(gs) == \A i \in 1..Len(gs) : gs[i].passed

respond(code) ==
  /\ uPc' = "responded"
  /\ uResponse' = code

\* The request arrives: the url of the body is tested, then its scheme, and the
\* hostname lookup is started.
urlPost(u) ==
  /\ uPc = "idle"
  /\ url' = u
  /\ IF ~u.given
       THEN respond(400) /\ guards' = <<>>
       ELSE IF ~isHttpOrHttps(u)
         THEN respond(400) /\ guards' = <<guard("scheme", FALSE)>>
         ELSE /\ uPc' = "resolving"
              /\ guards' = <<guard("scheme", TRUE)>>
              /\ UNCHANGED uResponse
  /\ UNCHANGED <<resolvedIp, fetchHost, hops, fetched, uploadIssued>>
  /\ UNCHANGED exceptUrl

\* The lookup has answered (or thrown): steps 2 and 3, then the image fetch is
\* issued to the hostname of the url.
urlResolved(answer) ==
  /\ uPc = "resolving"
  /\ LET ip == safeResolveHost(answer)
         gs == resolveGuards(url, ip)
     IN /\ resolvedIp' = ip
        /\ guards' = guards \o gs
        /\ IF allPassed(gs)
             THEN /\ uPc' = "fetching"
                  /\ fetchHost' = url.host
                  /\ UNCHANGED uResponse
             ELSE /\ respond(400)
                  /\ UNCHANGED fetchHost
  /\ UNCHANGED <<url, hops, fetched, uploadIssued>>
  /\ UNCHANGED exceptUrl

\* dns.lookup threw: safeResolveHost returns null.
urlResolveThrew ==
  /\ uPc = "resolving"
  /\ resolvedIp' = undefined
  /\ guards' = guards \o resolveGuards(url, undefined)
  /\ respond(400)
  /\ UNCHANGED <<url, fetchHost, hops, fetched, uploadIssued>>
  /\ UNCHANGED exceptUrl

\* axios.get(url) connects to the current host, whose name is resolved at that
\* moment, and the host answers with a redirect, which axios follows (no
\* maxRedirects option is given).
urlFetchRedirected(addr, to) ==
  /\ uPc = "fetching"
  /\ addr \in ConnectAddresses(fetchHost)
  /\ hops < MaxHops
  /\ fetched' = fetched \cup {addr}
  /\ fetchHost' = to
  /\ hops' = hops + 1
  /\ UNCHANGED <<uPc, url, resolvedIp, guards, uploadIssued, uResponse>>
  /\ UNCHANGED exceptUrl

\* The fetch ends in an error (no connection, timeout, non-2xx answer, too many
\* redirects): 500 'Failed to download image from URL'.
urlFetchFailed(addr) ==
  /\ uPc = "fetching"
  /\ addr \in ConnectAddresses(fetchHost)
  /\ fetched' = fetched \cup {addr}
  /\ guards' = Append(guards, guard("fetch", FALSE))
  /\ respond(500)
  /\ UNCHANGED <<url, resolvedIp, fetchHost, hops, uploadIssued>>
  /\ UNCHANGED exceptUrl

\* The fetch ends with a 2xx answer: step 5 (content type), then the file is
\* posted to {base}/upload.
urlFetched(addr, contentType) ==
  /\ uPc = "fetching"
  /\ addr \in ConnectAddresses(fetchHost)
  /\ fetched' = fetched \cup {addr}
  /\ IF isLikelyImageContentType(contentType)
       THEN /\ guards' = guards \o <<guard("fetch", TRUE), guard("ctype", TRUE)>>
            /\ uploadIssued' = TRUE
            /\ uPc' = "uploading"
            /\ UNCHANGED uResponse
       ELSE /\ guards' = guards \o <<guard("fetch", TRUE), guard("ctype", FALSE)>>
            /\ respond(400)
            /\ UNCHANGED uploadIssued
  /\ UNCHANGED <<url, resolvedIp, fetchHost, hops>>
  /\ UNCHANGED exceptUrl

\* {base}/upload answered: 200 with the uuid, or the upstream's status (500
\* when there is none).
urlUploaded(code) ==
  /\ uPc = "uploading"
  /\ respond(code)
  /\ UNCHANGED <<url, resolvedIp, fetchHost, hops, fetched, guards, uploadIssued>>
  /\ UNCHANGED exceptUrl

\* The handler has returned; the next request finds it as new.
urlNext ==
  /\ uPc = "responded"
  /\ uPc' = "idle"
  /\ url' = [given |-> FALSE, parses |-> FALSE, protocol |-> "", host |-> "", length |-> 0]
  /\ resolvedIp' = undefined
  /\ fetchHost' = ""
  /\ hops' = 0
  /\ fetched' = {}
  /\ guards' = <<>>
  /\ uploadIssued' = FALSE
  /\ uResponse' = 0
  /\ UNCHANGED exceptUrl

InitUrl == idlePoll /\ idleUrl /\ idleProxy /\ idleTasks /\ idleLog /\ idleFormat

NextUrl ==
  \/ \E u \in Urls : urlPost(u)
  \/ \E answer \in LookupAnswers(url.host) : urlResolved(answer)
  \/ urlResolveThrew
  \/ \E addr \in Addresses, to \in Hosts : urlFetchRedirected(addr, to)
  \/ \E addr \in Addresses : urlFetchFailed(addr)
  \/ \E addr \in Addresses, ct \in ContentTypes : urlFetched(addr, ct)
  \/ \E code \in {200, 413, 500} : urlUploaded(code)
  \/ urlNext

SpecUrl == InitUrl /\ [][NextUrl]_vars

----------------------------------------------------------------------------
(* The session routes: session/[uuid], session/[uuid]/status,               *)
(* session/[uuid]/original-image, session/[uuid]/face/[faceId]              *)

Digits == {"0", "1", "2", "3", "4", "5", "6", "7", "8", "9"}

HexLetters == {"a", "b", "c", "d", "e", "f"}

UpperCase == [c \in {"A", "B", "C", "D", "E", "F"} |->
               CASE c = "A" -> "a" [] c = "B" -> "b" [] c = "C" -> "c"
                 [] c = "D" -> "d" [] c = "E" -> "e" [] c = "F" -> "f"]

\* The /i flag, on the letters the patterns of the routes name (a-f, and the e
\* of %2e).
lowerCase(c) == IF c \in DOMAIN UpperCase THEN UpperCase[c] ELSE c

toLowerCase(s) == [i \in 1..Len(s) |-> lowerCase(s[i])]

\* \w of the image_path pattern
WordChars ==
  Digits \cup HexLetters \cup DOMAIN UpperCase
    \cup {"g", "h", "i", "j", "k", "l", "m", "n", "o", "p", "q", "r", "s", "t",
          "u", "v", "w", "x", "y", "z", "_"}

\* /^[0-9a-f]{8}-[0-9a-f]{4}-[0-9a-f]{4}-[0-9a-f]{4}-[0-9a-f]{12}$/i
isValidUuid(uuid) ==
  /\ Len(uuid) = 36
  /\ \A i \in 1..36 :
       IF i \in {9, 14, 19, 24} THEN uuid[i] = "-"
       ELSE lowerCase(uuid[i]) \in Digits \cup HexLetters

\* uuid.includes('..') || /%2e%2e/i.test(uuid)
hasPathTraversal(uuid) ==
  \/ includes(uuid, txtDotDot)
  \/ includes(toLowerCase(uuid), txtPct2e2e)

\* /^[0-9]+$/
isDigits(s) == Len(s) >= 1 /\ \A i \in 1..Len(s) : s[i] \in Digits

digitValue(c) ==
  CASE c = "0" -> 0 [] c = "1" -> 1 [] c = "2" -> 2 [] c = "3" -> 3 [] c = "4" -> 4
    [] c = "5" -> 5 [] c = "6" -> 6 [] c = "7" -> 7 [] c = "8" -> 8 [] c = "9" -> 9

\* parseInt(s, 10) of a text of digits
RECURSIVE parseInt(_)
parseInt(s) ==
  IF Len(s) = 0 THEN 0
  ELSE 10 * parseInt(SubSeq(s, 1, Len(s) - 1)) + digitValue(s[Len(s)])

\* face_path.match(/_(\d+)\.[^.]+$/): the digits between an underscore and the
\* last dot of the path, which is followed by at least one character;
\* undefined when the path does not match.
facePathIndex(path) ==
  LET dots == {i \in 1..Len(path) : path[i] = "."}
  IN IF dots = {} THEN undefined
     ELSE LET lastDot == CHOOSE i \in dots : \A j \in dots : j <= i
              starts == {j \in 1..(lastDot - 1) :
                           \A k \in j..(lastDot - 1) : path[k] \in Digits}
          IN IF lastDot = Len(path) \/ starts = {} THEN undefined
             ELSE LET first == CHOOSE j \in starts : \A k \in starts : j <= k
                  IN IF first > 1 /\ path[first - 1] = "_"
                       THEN some(parseInt(SubSeq(path, first, lastDot - 1)))
                       ELSE undefined

\* The test of the find callback on the path, without the traversal tests.
faceAllowedPrefixOnly(path) ==
  \/ startsWith(path, txtDotStorageOriginal)
  \/ startsWith(path, txtStorageOriginal)
  \/ startsWith(path, txtStorageFaces)

faceAllowed(path) ==
  /\ \/ startsWith(path, txtDotStorageOriginal)
     \/ startsWith(path, txtStorageOriginal)
     \/ startsWith(path, txtStorageFaces)
  /\ ~includes(path, txtDotDot)
  /\ ~includes(path, txtSlashSlash)

\* The callback of sessionData.faces.find
faceMatches(face, faceIndex) ==
  /\ ~face.isNull
  /\ face.face_path # undefined
  /\ face.face_path[1] # <<>>
  /\ faceAllowed(face.face_path[1])
  /\ facePathIndex(face.face_path[1]) = some(faceIndex)

\* The last element the callback accepts, where find returns the first.
findTargetFaceLast(faces, faceIndex) ==
  LET hits == {i \in 1..Len(faces) : faceMatches(faces[i], faceIndex)}
  IN IF hits = {} THEN undefined
     ELSE some(faces[CHOOSE i \in hits : \A j \in hits : j <= i])

\* Array.prototype.find: the first element the callback accepts.
findTargetFace(faces, faceIndex) ==
  LET hits == {i \in 1..Len(faces) : faceMatches(faces[i], faceIndex)}
  IN IF hits = {} THEN undefined
     ELSE some(faces[CHOOSE i \in hits : \A j \in hits : i <= j])

\* path.basename (posix): trailing slashes dropped, then what follows the last slash.
RECURSIVE stripTrailingSlashes(_)
stripTrailingSlashes(path) ==
  IF Len(path) > 0 /\ path[Len(path)] = "/"
    THEN stripTrailingSlashes(SubSeq(path, 1, Len(path) - 1))
    ELSE path

basename(path) ==
  LET q == stripTrailingSlashes(path)
      slashes == {i \in 1..Len(q) : q[i] = "/"}
  IN IF slashes = {} THEN q
     ELSE SubSeq(q, (CHOOSE i \in slashes : \A j \in slashes : j <= i) + 1, Len(q))

\* imagePath.match(/^(\.?\/storage\/original\/)[\w\-/]+\.jpg$/)
matchesImagePath(path) ==
  LET q == IF startsWith(path, txtDot) THEN Tail(path) ELSE path
      from == Len(txtStorageOriginal) + 1
      to == Len(q) - Len(txtDotJpg)
  IN /\ startsWith(q, txtStorageOriginal)
     /\ to >= from
     /\ SubSeq(q, to + 1, Len(q)) = txtDotJpg
     /\ \A i \in from..to : q[i] \in WordChars \cup {"-", "/"}

\* The storage path for image_path with the pattern test alone, without the
\* tests for '..' and '//'.
originalStoragePathPatternOnly(image_path) ==
  IF image_path = undefined \/ image_path[1] = <<>> \/ ~matchesImagePath(image_path[1])
    THEN undefined
  ELSE IF startsWith(image_path[1], txtDot) THEN some(Tail(image_path[1]))
  ELSE image_path

\* The original-image route: the storage path fetched for image_path, undefined
\* when image_path is refused.
originalStoragePath(image_path) ==
  IF image_path = undefined \/ image_path[1] = <<>> \/ ~matchesImagePath(image_path[1])
    THEN undefined
  ELSE IF includes(image_path[1], txtDotDot) \/ includes(image_path[1], txtSlashSlash)
    THEN undefined
  ELSE IF startsWith(image_path[1], txtDot) THEN some(Tail(image_path[1]))
  ELSE image_path

Routes == {"info", "status", "original-image", "face"}

\* Whether the route validates the identifier before anything else; the status
\* route passes params.uuid to upstream as it is.
validatesUuid(r) == r \in {"info", "original-image", "face"}

RequestUuids ==
  {uuidLower, uuidUpper, idShort, idNotHex, idNoDashes, idTraversal,
   idEncodedTraversal, idTooLong}

txt0 == <<"0">>

txt2 == <<"2">>

txt3 == <<"3">>

txt03 == <<"0", "3">>

txt3a == <<"3", "a">>

RequestFaceIds == {txt0, txt2, txt3, txt03, txt3a, <<>>}

proxyFace(path) == [isNull |-> FALSE, face_path |-> path]

\* Entries a face list of upstream can hold: null, a face without face_path, and
\* faces with the paths below.
ProxyFaces ==
  { [isNull |-> TRUE, face_path |-> undefined], proxyFace(undefined) }
  \cup { proxyFace(some(path)) :
           path \in {pathFaces2, pathFaces3, pathFaces03, pathOriginal3,
                     pathTraversal3, pathDoubleSlash3, pathElsewhere3, pathNoIndex,
                     pathNoExt2} }

ImagePaths ==
  { undefined, some(imgOk), some(imgDotOk), some(imgDoubleSlash), some(imgElsewhere),
    some(imgPng), some(imgTraversal) }

sessionPayload(isObject, facesIsArray, faces, image_path) ==
  [isObject |-> isObject, facesIsArray |-> facesIsArray, faces |-> faces,
   image_path |-> image_path]

\* Bodies GET {base}/{uuid} can answer with, by the route that asks (each route
\* reads one part of the body): an empty body, a body without faces, and face
\* lists of up to MaxFaces entries; or the image_path values.
SessionAnswers(r) ==
  IF r = "face"
    THEN { sessionPayload(FALSE, FALSE, <<>>, undefined),
           sessionPayload(TRUE, FALSE, <<>>, undefined) }
         \cup { sessionPayload(TRUE, TRUE, fs, undefined) :
                  fs \in UNION {[1..n -> ProxyFaces] : n \in 0..MaxFaces} }
  ELSE IF r = "original-image"
    THEN { sessionPayload(TRUE, TRUE, <<>>, ip) : ip \in ImagePaths }
         \cup { sessionPayload(FALSE, FALSE, <<>>, undefined) }
  ELSE { sessionPayload(TRUE, TRUE, <<>>, some(imgOk)) }

upstreamCall(kind, arg) == [kind |-> kind, arg |-> arg]

\* What a response body is made of: "fixed" is a message written in the route,
\* "message" is error.message of the caught error, "upstream-error" is the body
\* of the upstream error response, "payload" is the upstream JSON of a
\* successful answer, "bytes" is the image.
answer(code, body) ==
  /\ rPc' = "responded"
  /\ rResponse' = code
  /\ rBody' = body

\* Statuses upstream answers a failed request with (0: no answer at all).
UpstreamFailures == {0, 403, 404, 500}

\* The pathname the face handler reads.  "routed" is the path the route is
\* mounted at; "rewritten" is another public path brought to the handler by a
\* rewrite (request.nextUrl keeps the path requested); "extra" has one more
\* segment.
PathShapes == {"routed", "rewritten", "extra"}

facePathname(shape, uuid, faceId) ==
  CASE shape = "routed" -> txtApiProoflySession \o uuid \o txtSlashFaceSlash \o faceId
    [] shape = "rewritten" -> txtSlashFaces \o uuid \o txtSlash \o faceId
    [] shape = "extra" ->
         txtApiProoflySession \o uuid \o txtSlashFaceSlash \o faceId \o txtSlashExtra

\* pathname.split('/')
RECURSIVE split(_)
split(s) ==
  LET slashes == {i \in 1..Len(s) : s[i] = "/"}
  IN IF slashes = {} THEN <<s>>
     ELSE LET i == CHOOSE k \in slashes : \A l \in slashes : k <= l
          IN <<SubSeq(s, 1, i - 1)>> \o split(SubSeq(s, i + 1, Len(s)))

\* parts.length < 7 || parts[3] !== 'session' || parts[5] !== 'face' (0-based)
partsParse(parts) == Len(parts) >= 7 /\ parts[4] = txtSession /\ parts[6] = txtFace

\* validPathRegex, case-insensitive:
\* ^/api/proofly/session/[0-9a-f-]{36}/face/[0-9]+$
validPathRegex(pathname) ==
  LET n == Len(txtApiProoflySession)
  IN /\ Len(pathname) >= n + 36 + Len(txtSlashFaceSlash) + 1
     /\ toLowerCase(SubSeq(pathname, 1, n)) = txtApiProoflySession
     /\ \A i \in (n + 1)..(n + 36) :
          lowerCase(pathname[i]) \in Digits \cup HexLetters \cup {"-"}
     /\ toLowerCase(SubSeq(pathname, n + 37, n + 36 + Len(txtSlashFaceSlash)))
          = txtSlashFaceSlash
     /\ isDigits(SubSeq(pathname, n + 37 + Len(txtSlashFaceSlash), Len(pathname)))

\* The tests of the face handler in the order it makes them, each with its
\* result and the status answered when it fails: the split of the path
\* (a throw, caught at the end: 500), the identifier, the traversal test, the
\* face index, the strict path pattern.
faceChecks(pathname) ==
  LET parts == split(pathname)
  IN IF ~partsParse(parts) THEN <<[name |-> "parts", passed |-> FALSE, code |-> 500]>>
     ELSE <<[name |-> "parts", passed |-> TRUE, code |-> 500],
            [name |-> "uuid", passed |-> isValidUuid(parts[5]), code |-> 400],
            [name |-> "traversal", passed |-> ~hasPathTraversal(parts[5]), code |-> 400],
            [name |-> "faceId", passed |-> isDigits(parts[7]), code |-> 400],
            [name |-> "path", passed |-> validPathRegex(pathname), code |-> 400]>>

\* The tests made: up to the first that fails.
checksMade(checks) ==
  LET failing == {i \in 1..Len(checks) : ~checks[i].passed}
  IN IF failing = {} THEN checks
     ELSE SubSeq(checks, 1, CHOOSE k \in failing : \A l \in failing : k <= l)

\* The request arrives.  info and original-image test the identifier and answer
\* 400; face makes its tests on the pathname, of which the identifier is one
\* segment (it holds no '/'); otherwise the first upstream request is issued:
\* GET {base}/{uuid}, or GET {base}/{uuid}/status.
proxyRequest(r, shape, uuid, faceId) ==
  /\ rPc = "idle"
  /\ r # "face" => shape = "routed"
  /\ r = "face" => \A i \in 1..Len(uuid) : uuid[i] # "/"
  /\ route' = r
  /\ reqUuid' = uuid
  /\ reqFaceId' = IF r = "face" THEN faceId ELSE <<>>
  /\ reqPath' = IF r = "face" THEN facePathname(shape, uuid, faceId) ELSE <<>>
  /\ LET made == IF r = "face" THEN checksMade(faceChecks(facePathname(shape, uuid, faceId)))
                  ELSE <<>>
     IN /\ rChecks' = made
        /\ IF r # "face" /\ validatesUuid(r) /\ (~isValidUuid(uuid) \/ hasPathTraversal(uuid))
             THEN answer(400, "fixed") /\ UNCHANGED upstreamCalls
           ELSE IF r = "face" /\ ~made[Len(made)].passed
             THEN answer(made[Len(made)].code, "fixed") /\ UNCHANGED upstreamCalls
           ELSE /\ rPc' = "session"
                /\ upstreamCalls' = Append(upstreamCalls,
                     upstreamCall(IF r = "status" THEN "status" ELSE "session", uuid))
                /\ UNCHANGED <<rResponse, rBody>>
  /\ UNCHANGED <<rSession, targetFace, storageAnswer, sessionFailure>>
  /\ UNCHANGED exceptProxy

\* Upstream answered the first request with 2xx.
proxySessionAnswered(data) ==
  /\ rPc = "session"
  /\ data \in SessionAnswers(route)
  /\ rSession' = some(data)
  /\ CASE route \in {"info", "status"} ->
            answer(200, "payload") /\ UNCHANGED <<upstreamCalls, targetFace>>
       [] route = "original-image" ->
            LET storagePath == originalStoragePath(
                                 IF data.isObject THEN data.image_path ELSE undefined)
            IN IF storagePath = undefined
                 THEN answer(404, "fixed") /\ UNCHANGED <<upstreamCalls, targetFace>>
                 ELSE /\ rPc' = "storage"
                      /\ upstreamCalls' = Append(upstreamCalls,
                           upstreamCall("storage", storagePath[1]))
                      /\ UNCHANGED <<rResponse, rBody, targetFace>>
       [] route = "face" ->
            IF ~data.isObject \/ ~data.facesIsArray \/ Len(data.faces) = 0
              THEN answer(404, "fixed") /\ UNCHANGED <<upstreamCalls, targetFace>>
              ELSE LET face == findTargetFace(data.faces, parseInt(reqFaceId))
                   IN /\ targetFace' = face
                      /\ IF face = undefined
                           THEN answer(404, "fixed") /\ UNCHANGED upstreamCalls
                           ELSE /\ rPc' = "storage"
                                /\ upstreamCalls' = Append(upstreamCalls,
                                     upstreamCall("storage",
                                       txtStorageFaces \o basename(face[1].face_path[1])))
                                /\ UNCHANGED <<rResponse, rBody>>
  /\ UNCHANGED <<route, reqUuid, reqFaceId, reqPath, rChecks, storageAnswer,
                 sessionFailure>>
  /\ UNCHANGED exceptProxy

\* The first request failed with the upstream status `code` (0: no answer at
\* all), the error answer carrying a body or not.  The status route relays the
\* upstream status and error.response?.data || error.message; the others
\* answer 500 with their own message.
proxySessionFailed(code, hasBody) ==
  /\ rPc = "session"
  /\ code = 0 => ~hasBody
  /\ sessionFailure' = code
  /\ IF route = "status"
       THEN answer(IF code # 0 THEN code ELSE 500,
                   IF hasBody THEN "upstream-error" ELSE "message")
       ELSE answer(500, "fixed")
  /\ UNCHANGED <<route, reqUuid, reqFaceId, reqPath, rChecks, upstreamCalls, rSession,
                 targetFace,
                 storageAnswer>>
  /\ UNCHANGED exceptProxy

\* maxRedirects of the storage fetch of the face and original-image routes
storageMaxRedirects == 0

\* axios without the option: up to five redirects are followed.
axiosDefaultRedirectFollowed(taken) == taken < 5

\* axios: a 3xx answer is followed while fewer than maxRedirects redirects were
\* taken; otherwise it is an answer outside 2xx, which rejects.
storageRedirectFollowed(taken) == taken < storageMaxRedirects

redirectsTaken ==
  Cardinality({i \in 1..Len(upstreamCalls) : upstreamCalls[i].kind = "redirect"})

\* The storage fetch is answered: with the bytes, with a redirect, or with an
\* error (another status, or no answer).
proxyStorageAnswered(kind) ==
  /\ rPc = "storage"
  /\ storageAnswer' = kind
  /\ IF kind = "redirect" /\ storageRedirectFollowed(redirectsTaken)
       THEN /\ upstreamCalls' = Append(upstreamCalls, upstreamCall("redirect", <<>>))
            /\ UNCHANGED <<rPc, rResponse, rBody>>
       ELSE /\ IF kind = "bytes" THEN answer(200, "bytes") ELSE answer(500, "fixed")
            /\ UNCHANGED upstreamCalls
  /\ UNCHANGED <<route, reqUuid, reqFaceId, reqPath, rChecks, rSession, targetFace,
                 sessionFailure>>
  /\ UNCHANGED exceptProxy

\* The handler has returned; the next request finds it as new.
proxyNext ==
  /\ rPc = "responded"
  /\ rPc' = "idle"
  /\ route' = ""
  /\ reqUuid' = <<>>
  /\ reqFaceId' = <<>>
  /\ reqPath' = <<>>
  /\ rChecks' = <<>>
  /\ upstreamCalls' = <<>>
  /\ rSession' = undefined
  /\ targetFace' = undefined
  /\ storageAnswer' = ""
  /\ sessionFailure' = -1
  /\ rResponse' = 0
  /\ rBody' = ""
  /\ UNCHANGED exceptProxy

InitProxy == idlePoll /\ idleUrl /\ idleProxy /\ idleTasks /\ idleLog /\ idleFormat

NextProxy ==
  \/ \E r \in Routes, shape \in PathShapes, uuid \in RequestUuids,
          faceId \in RequestFaceIds :
       proxyRequest(r, shape, uuid, faceId)
  \/ \E data \in SessionAnswers(route) : proxySessionAnswered(data)
  \/ \E code \in UpstreamFailures, hasBody \in BOOLEAN : proxySessionFailed(code, hasBody)
  \/ \E kind \in {"bytes", "redirect", "error"} : proxyStorageAnswered(kind)
  \/ proxyNext

SpecProxy == InitProxy /\ [][NextProxy]_vars

----------------------------------------------------------------------------
(* FileUrlInputNew and Home with overlapping tasks.  Nothing in the code     *)
(* cancels a task: each runs to its end, calling the setters of the          *)
(* FileUrlInputNew instance that started it (without effect once that        *)
(* instance is unmounted) and the onAnalysisComplete of Home.                *)

\* Tasks the user starts in the behaviours explored.
MaxTasks == 4

\* The attempts at which a loop is taken to end: its first query, the last
\* before the limit, and the limit.
EndingAttempts == {1, maxAttempts - 1, maxAttempts}

\* The statuses a loop is taken to end on: one of each kind AfterLoop tells
\* apart ('done' is handled as 'completed', the in-flight statuses alike).
EndingStatuses == {"completed", "no faces found", "failed", "processing", "queued"}

\* The branch handleRetry takes.
retryBranchSessionFirst(held, uuid) ==
  IF uuid # 0 THEN "poll"
  ELSE IF held THEN "upload"
  ELSE "none"

retryBranchPollOnly(held, uuid) ==
  IF uuid # 0 THEN "poll" ELSE "none"

retryBranch(held, uuid) ==
  IF held THEN "upload"
  ELSE IF uuid # 0 THEN "poll"
  ELSE "none"

cInputHeld ==
  (cInputType = "file" /\ cFileHeld) \/ (cInputType = "url" /\ cIsValidUrl)

\* render: the form is shown when nothing is uploading or processing and no
\* error is set; otherwise renderLoadingState shows the upload bar, the
\* processing bar, or the error with the 'Try again' button, in this order.
formShown == mounted /\ ~cIsUploading /\ ~cIsProcessing /\ cError = "undefined"

errorShown == mounted /\ ~cIsUploading /\ ~cIsProcessing /\ cError # "undefined"

retryShown == errorShown

submitShown == formShown /\ (cFileHeld \/ cIsValidUrl)

\* What the user sees of the two components.
displayed == <<mounted, cIsUploading, cIsProcessing, cError, hSessionInfo, hStage>>

\* The setters of the instance that started task t still have an effect.
effective(t) == mounted /\ tasks[t].mount = mount

inFlight(t) == tasks[t].pc \in {"polling", "fetching"}

newTask(at, uuid, submission, via, kind) ==
  [pc |-> at, uuid |-> uuid, submission |-> submission, mount |-> mount,
   via |-> via, kind |-> kind]

\* A task that has run to its end; nothing of it is referred to any more.
endedTask ==
  [pc |-> "ended", uuid |-> 0, submission |-> 0, mount |-> 0, via |-> "", kind |-> ""]

\* The poll loop of task t has changed what is displayed, or has not.
recordChange(t) ==
  lastChange' = IF displayed' # displayed
                  THEN [by |-> t, submission |-> tasks[t].submission,
                        latest |-> submissions]
                  ELSE lastChange

\* The user selects a tab, picks or clears the file, edits the URL.
editForm(type, file, valid) ==
  /\ formShown
  /\ <<type, file, valid>> # <<cInputType, cFileHeld, cIsValidUrl>>
  /\ cInputType' = type
  /\ cFileHeld' = file
  /\ cIsValidUrl' = valid
  /\ UNCHANGED <<tasks, nextUuid, submissions, mounted, mount, cIsUploading,
                 cIsProcessing, cError, cSessionUuid, hSessionInfo, hStage,
                 lastChange>>
  /\ UNCHANGED exceptTasks

\* handleSubmit up to its first await; with the selected tab's input missing
\* it returns with isUploading set.
taskSubmit ==
  /\ submitShown
  /\ Len(tasks) < MaxTasks
  /\ cError' = "undefined"
  /\ cIsUploading' = TRUE
  /\ IF cInputHeld
       THEN /\ tasks' = Append(tasks,
                 newTask("uploading", 0, submissions + 1, "submit", "upload"))
            /\ submissions' = submissions + 1
       ELSE UNCHANGED <<tasks, submissions>>
  /\ UNCHANGED <<nextUuid, mounted, mount, cIsProcessing, cSessionUuid, cInputType,
                 cFileHeld, cIsValidUrl, hSessionInfo, hStage, lastChange>>
  /\ UNCHANGED exceptTasks

\* handleRetry up to its first await.  With the input held it uploads again,
\* setting nothing; otherwise it polls the session already obtained.
taskRetry ==
  /\ retryShown
  /\ Len(tasks) < MaxTasks
  /\ LET branch == retryBranch(cInputHeld, cSessionUuid)
     IN /\ branch # "none"
        /\ IF branch = "upload"
             THEN /\ tasks' = Append(tasks,
                       newTask("uploading", 0, submissions + 1, "retry", "upload"))
                  /\ submissions' = submissions + 1
                  /\ UNCHANGED cIsProcessing
             ELSE /\ tasks' = Append(tasks,
                       newTask("polling", cSessionUuid, submissions, "retry", "poll"))
                  /\ cIsProcessing' = TRUE
                  /\ UNCHANGED submissions
  /\ UNCHANGED <<nextUuid, mounted, mount, cIsUploading, cError, cSessionUuid,
                 cInputType, cFileHeld, cIsValidUrl, hSessionInfo, hStage, lastChange>>
  /\ UNCHANGED exceptTasks

\* The upload of task t answered with the uuid of the session upstream created
\* for it; checkSessionStatus starts.
taskUploadReturned(t) ==
  /\ tasks[t].pc = "uploading"
  /\ tasks' = [tasks EXCEPT ![t].pc = "polling", ![t].uuid = nextUuid]
  /\ nextUuid' = nextUuid + 1
  /\ IF effective(t)
       THEN /\ cSessionUuid' = nextUuid
            /\ cIsUploading' = FALSE
            /\ cIsProcessing' = TRUE
       ELSE UNCHANGED <<cSessionUuid, cIsUploading, cIsProcessing>>
  /\ UNCHANGED <<submissions, mounted, mount, cError, cInputType, cFileHeld,
                 cIsValidUrl, hSessionInfo, hStage, lastChange>>
  /\ UNCHANGED exceptTasks

\* The upload of task t threw, or its answer carried no uuid.
taskUploadFailed(t) ==
  /\ tasks[t].pc = "uploading"
  /\ tasks' = [tasks EXCEPT ![t] = endedTask]
  /\ IF effective(t)
       THEN /\ cError' = "Error uploading image. Please try again."
            /\ cIsUploading' = FALSE
       ELSE UNCHANGED <<cError, cIsUploading>>
  /\ UNCHANGED <<nextUuid, submissions, mounted, mount, cIsProcessing, cSessionUuid,
                 cInputType, cFileHeld, cIsValidUrl, hSessionInfo, hStage, lastChange>>
  /\ UNCHANGED exceptTasks

\* catch and finally of checkSessionStatus, then the finally of its caller.
taskThrew(t, kind) ==
  /\ tasks' = [tasks EXCEPT ![t] = endedTask]
  /\ IF effective(t)
       THEN /\ cError' = catchMessage(kind)
            /\ cIsProcessing' = FALSE
            /\ cIsUploading' = IF tasks[t].kind = "upload" THEN FALSE ELSE cIsUploading
       ELSE UNCHANGED <<cError, cIsProcessing, cIsUploading>>
  /\ UNCHANGED <<nextUuid, submissions, mounted, mount, cSessionUuid, cInputType,
                 cFileHeld, cIsValidUrl, hSessionInfo, hStage>>
  /\ recordChange(t)

\* The loop of task t ends: its a-th status query is the first whose answer s
\* does not continue the loop (the a - 1 answers before it were in-flight
\* statuses and set nothing but the locals).
taskPollEnded(t, s, a) ==
  /\ tasks[t].pc = "polling"
  /\ ~LoopContinues(s, a)
  /\ LET next == AfterLoop(s, a) IN
     CASE next = "fetch" ->
            /\ tasks' = [tasks EXCEPT ![t].pc = "fetching"]
            /\ UNCHANGED <<nextUuid, submissions, mounted, mount, cIsUploading,
                           cIsProcessing, cError, cSessionUuid, cInputType,
                           cFileHeld, cIsValidUrl, hSessionInfo, hStage, lastChange>>
       [] next \in {"timeout", "failed"} -> taskThrew(t, next)
       [] next = "silent" ->
            /\ tasks' = [tasks EXCEPT ![t] = endedTask]
            /\ IF effective(t)
                 THEN /\ cIsProcessing' = FALSE
                      /\ cIsUploading' =
                           IF tasks[t].kind = "upload" THEN FALSE ELSE cIsUploading
                 ELSE UNCHANGED <<cIsProcessing, cIsUploading>>
            /\ UNCHANGED <<nextUuid, submissions, mounted, mount, cError,
                           cSessionUuid, cInputType, cFileHeld, cIsValidUrl,
                           hSessionInfo, hStage>>
            /\ recordChange(t)
  /\ UNCHANGED exceptTasks

\* A status query of task t threw.
taskPollThrew(t) ==
  /\ tasks[t].pc = "polling"
  /\ taskThrew(t, "status")
  /\ UNCHANGED exceptTasks

\* getSessionInfo of task t answered: onAnalysisComplete runs in Home, which
\* now shows the results of the task's session in place of FileUrlInputNew.
taskInfoReturned(t) ==
  /\ tasks[t].pc = "fetching"
  /\ tasks' = [tasks EXCEPT ![t] = endedTask]
  /\ hSessionInfo' = tasks[t].uuid
  /\ hStage' = "results"
  /\ mounted' = FALSE
  /\ cIsUploading' = FALSE
  /\ cIsProcessing' = FALSE
  /\ cError' = "undefined"
  /\ cSessionUuid' = 0
  /\ cInputType' = "file"
  /\ cFileHeld' = FALSE
  /\ cIsValidUrl' = FALSE
  /\ UNCHANGED <<nextUuid, submissions, mount>>
  /\ recordChange(t)
  /\ UNCHANGED exceptTasks

\* getSessionInfo of task t threw.
taskInfoFailed(t) ==
  /\ tasks[t].pc = "fetching"
  /\ taskThrew(t, "info")
  /\ UNCHANGED exceptTasks

\* Home: handleNewUpload ('Upload new image'); a fresh FileUrlInputNew is mounted.
taskNewUpload ==
  /\ hStage = "results"
  /\ hSessionInfo # 0
  /\ hSessionInfo' = 0
  /\ hStage' = "initial"
  /\ mounted' = TRUE
  /\ mount' = mount + 1
  /\ submissions' = submissions + 1
  /\ UNCHANGED <<tasks, nextUuid, cIsUploading, cIsProcessing, cError, cSessionUuid,
                 cInputType, cFileHeld, cIsValidUrl, lastChange>>
  /\ UNCHANGED exceptTasks

InitTasks == idlePoll /\ idleUrl /\ idleProxy /\ idleTasks /\ idleLog /\ idleFormat

NextTasks ==
  \/ \E type \in {"file", "url"}, file \in BOOLEAN, valid \in BOOLEAN :
       editForm(type, file, valid)
  \/ taskSubmit
  \/ taskRetry
  \/ \E t \in 1..Len(tasks) : taskUploadReturned(t)
  \/ \E t \in 1..Len(tasks) : taskUploadFailed(t)
  \/ \E t \in 1..Len(tasks), s \in EndingStatuses, a \in EndingAttempts :
       taskPollEnded(t, s, a)
  \/ \E t \in 1..Len(tasks) : taskPollThrew(t)
  \/ \E t \in 1..Len(tasks) : taskInfoReturned(t)
  \/ \E t \in 1..Len(tasks) : taskInfoFailed(t)
  \/ taskNewUpload

SpecTasks == InitTasks /\ [][NextTasks]_vars

----------------------------------------------------------------------------
(* lib/api/proofly.ts: logApiCall *)

\* logApiCall calls made in the behaviours explored.
MaxLogged == 103

maxLogEntries == 100

\* The limit applied with shift(): the newest entry is the one dropped.
limitLogDropNewest(logs) ==
  IF Len(logs) > maxLogEntries THEN Tail(logs) ELSE logs

\* if (apiLogs.length > 100) apiLogs.pop()
limitLog(logs) ==
  IF Len(logs) > maxLogEntries THEN SubSeq(logs, 1, Len(logs) - 1) ELSE logs

\* apiLogs.unshift(entry), then the limit.  An entry is the number of its call.
logApiCall ==
  /\ logged < MaxLogged
  /\ logged' = logged + 1
  /\ apiLogs' = limitLog(<<logged + 1>> \o apiLogs)
  /\ UNCHANGED exceptLog

InitLog == idlePoll /\ idleUrl /\ idleProxy /\ idleTasks /\ idleLog /\ idleFormat

NextLog == logApiCall

SpecLog == InitLog /\ [][NextLog]_vars

----------------------------------------------------------------------------
(* lib/types/proofly.ts: formatAnalysisResults applied to session payloads   *)

\* Longest face list of the payloads formatted.
MaxFormatFaces == 2

\* Scores around the thresholds of the verdict, in thousandths.
Scores == {0, 50, 51, 300, 301, 700, 701, 920, 950, 951, 1000}

\* The value of is_real_model_<i> in the faces below; none is the default 0.5.
modelScore(i) == 90 * i + 7

\* Which is_real_model_<n> keys a face carries; 11 is a key of that prefix
\* outside the ten the formatter reads.
ModelFieldSets == {{1, 2}, {3, 7}, {10}, 1..9, 1..10, {11}}

metricsTexture == <<[name |-> "Texture", probability |-> 30]>>

metricsTwo ==
  <<[name |-> "Texture", probability |-> 30], [name |-> "Frequency", probability |-> 880]>>

faceOf(ansamble, realProbability, models, metrics, verdict) ==
  [ansamble |-> ansamble, realProbability |-> realProbability,
   is_real_model |-> [i \in models |-> modelScore(i)], metrics |-> metrics,
   verdict |-> verdict, face_path |-> some(pathFaces3)]

\* Faces of the payloads: every score without model fields, metrics or verdict;
\* the generic realProbability alone, and neither score; a verdict of upstream;
\* some or all of the per-model fields; metrics, with and without model fields.
FormatFaces ==
  {faceA, faceB}
  \cup { faceOf(some(s), undefined, {}, undefined, "") : s \in Scores }
  \cup { faceOf(undefined, some(s), {}, undefined, "") : s \in {50, 951} }
  \cup { faceOf(undefined, undefined, {}, undefined, "") }
  \cup { faceOf(some(s), undefined, {}, undefined, "Fake") : s \in {50, 920} }
  \cup { faceOf(some(920), undefined, m, undefined, "") : m \in ModelFieldSets }
  \cup { faceOf(some(920), undefined, {}, some(metricsTexture), ""),
         faceOf(some(920), undefined, {}, some(metricsTwo), ""),
         faceOf(some(920), undefined, {3, 7}, some(metricsTexture), "") }

\* The payloads: without the optional faces field, and with every face list of
\* up to MaxFormatFaces of the faces above.
FormatSessions ==
  { [status |-> "no faces found", hasFaces |-> FALSE, faces |-> <<>>] }
  \cup { [status |-> "completed", hasFaces |-> TRUE, faces |-> fs] :
           fs \in UNION {[1..n -> FormatFaces] : n \in 0..MaxFormatFaces} }

\* formatAnalysisResults returns.
formatReturn ==
  /\ fPc = "called"
  /\ fResults' = formatAnalysisResults(fSession)
  /\ fPc' = "returned"
  /\ UNCHANGED fSession
  /\ UNCHANGED exceptFormat

\* formatAnalysisResults has been called with one of the payloads.
InitFormat ==
  /\ idlePoll /\ idleUrl /\ idleProxy /\ idleTasks /\ idleLog
  /\ fPc = "called"
  /\ fSession \in FormatSessions
  /\ fResults = <<>>

NextFormat == formatReturn

SpecFormat == InitFormat /\ [][NextFormat]_vars

----------------------------------------------------------------------------
(* Claims about the poll loop, checked under SpecPoll *)

\* The run of checkSessionStatus that was started last has finished.
runEnded == pc = "idle" /\ outcome \in {"results", "timeout", "failed", "threw", "silent"}

\* C1: a run in which every status query returns an in-flight status issues
\* exactly 60 queries and then shows the timeout error; no run issues more than
\* 60 queries.
C1_PollBudget ==
  /\ queries <= maxAttempts
  /\ (runEnded /\ onlyInFlight) =>
       /\ queries = maxAttempts
       /\ outcome = "timeout"
       /\ error = "Error: Processing timeout exceeded"
       /\ currentStage = "error"
       /\ infoFetches = 0

C1_Witness ==
  runEnded /\ onlyInFlight /\ queries = 60 /\ returned = "in progress"

\* C2: once a status query has returned completed or done (as any of the 60
\* answers), the session info is fetched, and when that fetch succeeds the page
\* shows the results and the run sets no error.
C2_CompletedGivesResults ==
  returned \in {"completed", "done"} =>
    \/ pc = "fetching" /\ infoFetches = 1
    \/ /\ runEnded /\ outcome = "results" /\ infoFetches = 1
       /\ completeCalls = 1 /\ rendersResults
    \/ runEnded /\ outcome = "threw" /\ infoFetches = 1

\* C3: once a status query has returned 'no faces found', polling stops, the
\* session info is fetched and the page shows the results; for a payload with
\* an empty face list the formatter returns the empty list and the notice
\* 'No faces detected' is shown.
C3_NoFacesGivesResults ==
  returned = "no faces found" =>
    \/ pc = "fetching" /\ infoFetches = 1
    \/ /\ runEnded /\ outcome = "results" /\ infoFetches = 1
       /\ completeCalls = 1 /\ rendersResults
       /\ Len(sessionInfo[1].faces) = 0 =>
            /\ formatAnalysisResults(sessionInfo[1]) = <<>>
            /\ showsNoFacesNotice(sessionInfo[1])
    \/ runEnded /\ outcome = "threw" /\ infoFetches = 1

\* C4: once a status query has returned failed, the error 'processing failed'
\* is shown, and the run neither fetches the session info nor calls
\* onAnalysisComplete.
C4_FailedGivesProcessingFailed ==
  returned = "failed" =>
    /\ runEnded
    /\ error = "Error: Image processing failed"
    /\ currentStage = "error"
    /\ infoFetches = 0
    /\ completeCalls = 0

----------------------------------------------------------------------------
(* Claims about POST /upload-url, checked under SpecUrl *)

\* 127.0.0.0/8 and ::1
isLoopbackAddress(a) ==
  \/ a.v = 4 /\ a.o[1] = 127
  \/ a = ip6Loopback

\* 10.0.0.0/8, 172.16.0.0/12, 192.168.0.0/16, 169.254.0.0/16
isPrivateRangeAddress(a) ==
  /\ a.v = 4
  /\ \/ a.o[1] = 10
     \/ a.o[1] = 172 /\ a.o[2] \in 16..31
     \/ a.o[1] = 192 /\ a.o[2] = 168
     \/ a.o[1] = 169 /\ a.o[2] = 254

\* C6: when the hostname of the submitted URL resolves to 127.0.0.1 or ::1 (the
\* address the lookup puts first), the answer is 400 and neither the image
\* fetch nor the create-session call is issued.
C6_LoopbackRejected ==
  (resolvedIp # undefined /\ resolvedIp[1] \in {ip4(127, 0, 0, 1), ip6Loopback}) =>
    /\ uPc = "responded"
    /\ uResponse = 400
    /\ fetched = {}
    /\ ~uploadIssued

C6_Witness ==
  /\ resolvedIp = some(ip6Loopback)
  /\ url.host = "rebind.test"
  /\ uPc = "responded" /\ uResponse = 400

\* C7: when the hostname of the submitted URL resolves to an address of a
\* private range, the request is rejected before any image fetch is issued.
C7_PrivateRangeRejected ==
  (resolvedIp # undefined /\ isPrivateRangeAddress(resolvedIp[1])) =>
    /\ uPc = "responded"
    /\ uResponse = 400
    /\ fetched = {}

\* C8: while one request is handled, redirects and fetch-time resolutions
\* included, no fetch is issued to a loopback or private address.
C8_NoInternalFetch ==
  \A a \in fetched : ~isLoopbackAddress(a) /\ ~isPrivateRangeAddress(a)

guardOrder == <<"scheme", "public", "length", "fetch", "ctype">>

----------------------------------------------------------------------------
(* Claims about the session routes, checked under SpecProxy *)

storageFetched == \E i \in 1..Len(upstreamCalls) : upstreamCalls[i].kind = "storage"

\* C5: a request whose session identifier does not match the UUID grammar, or
\* contains '..' or '%2e%2e', is answered 400 by every route that takes the
\* identifier, and no request is issued to upstream.
C5_MalformedIdRejected ==
  (rPc # "idle" /\ (~isValidUuid(reqUuid) \/ hasPathTraversal(reqUuid))) =>
    /\ rPc = "responded"
    /\ rResponse = 400
    /\ upstreamCalls = <<>>

\* A face the route may fetch for faceIndex: its path starts with
\* a storage prefix, holds neither '..' nor '//', and ends in _<faceIndex>.<ext>.
fetchableFace(face, faceIndex) ==
  /\ ~face.isNull
  /\ face.face_path # undefined
  /\ LET path == face.face_path[1]
     IN /\ \E prefix \in {txtDotStorageOriginal, txtStorageOriginal, txtStorageFaces} :
             startsWith(path, prefix)
        /\ ~includes(path, txtDotDot)
        /\ ~includes(path, txtSlashSlash)
        /\ facePathIndex(path) = some(faceIndex)

\* C10: when the face route issues a storage fetch, the face it selected is a
\* face of the session whose path starts with an allowed prefix, holds neither
\* '..' nor '//' and carries the requested index; when the session holds no
\* such face the answer is 404 and no storage fetch is issued.
C10_FaceSelection ==
  (route = "face" /\ rSession # undefined) =>
    LET faces == IF rSession[1].isObject /\ rSession[1].facesIsArray
                   THEN rSession[1].faces ELSE <<>>
        faceIndex == parseInt(reqFaceId)
    IN /\ storageFetched =>
            /\ targetFace # undefined
            /\ \E i \in 1..Len(faces) : faces[i] = targetFace[1]
            /\ fetchableFace(targetFace[1], faceIndex)
            /\ upstreamCalls[Len(upstreamCalls)].arg =
                 txtStorageFaces \o basename(targetFace[1].face_path[1])
       /\ (\A i \in 1..Len(faces) : ~fetchableFace(faces[i], faceIndex)) =>
            /\ rPc = "responded"
            /\ rResponse = 404
            /\ ~storageFetched

C10_Witness ==
  /\ route = "face" /\ rPc = "storage" /\ storageFetched
  /\ reqFaceId = txt3
  /\ rSession # undefined
  /\ rSession[1].faces = <<proxyFace(some(pathTraversal3)), proxyFace(some(pathFaces03))>>
  /\ targetFace = some(proxyFace(some(pathFaces03)))

\* The session answer holds the face whose path is /storage/faces/abc_3.png.
holdsFaces3 ==
  /\ route = "face"
  /\ rSession # undefined
  /\ rSession[1].isObject /\ rSession[1].facesIsArray
  /\ \E i \in 1..Len(rSession[1].faces) :
       rSession[1].faces[i] = proxyFace(some(pathFaces3))

\* The positions of the faces of the session answer that may be fetched for n.
fetchablePositions(n) ==
  {i \in 1..Len(rSession[1].faces) : fetchableFace(rSession[1].faces[i], n)}

\* C11 (as stated): for a session that holds /storage/faces/abc_3.png, a
\* request with faceIndex 3 resolves to that face, and a request with
\* faceIndex 2 is answered 404 whatever the other faces of the session are.
C11_AsStated ==
  holdsFaces3 =>
    /\ parseInt(reqFaceId) = 3 => targetFace = some(proxyFace(some(pathFaces3)))
    /\ parseInt(reqFaceId) = 2 =>
         rPc = "responded" /\ rResponse = 404 /\ ~storageFetched

\* C11 (amended): for a session that holds /storage/faces/abc_3.png, a request
\* with faceIndex 3 resolves, to the first face of the list that may be
\* fetched for 3; a request with faceIndex 2 is answered 404 with no storage
\* fetch exactly when no face of the session may be fetched for 2 (a path that
\* ends in _2 with no extension, or lies outside the storage prefixes, does
\* not count), and resolves to the first such face otherwise.
C11_FaceIndexScenario ==
  holdsFaces3 =>
    LET faceIndex == parseInt(reqFaceId)
        hits == fetchablePositions(faceIndex)
    IN /\ faceIndex = 3 => hits # {}
       /\ hits # {} =>
            /\ targetFace =
                 some(rSession[1].faces[CHOOSE i \in hits : \A j \in hits : i <= j])
            /\ storageFetched
            /\ rPc = "storage" \/ (rPc = "responded" /\ rResponse \in {200, 500})
       /\ hits = {} =>
            /\ targetFace = undefined
            /\ rPc = "responded" /\ rResponse = 404
            /\ ~storageFetched

C11_Witness ==
  /\ holdsFaces3
  /\ reqFaceId = txt2
  /\ rSession[1].faces = <<proxyFace(some(pathFaces3)), proxyFace(some(pathNoExt2))>>
  /\ rPc = "responded" /\ rResponse = 404

\* C12: when the storage fetch of the face or the original-image route is
\* answered with a redirect, no request is issued to the redirect target and
\* the client is answered 500 with the route's own message, never with the
\* image.
C12_NoRedirectFollowed ==
  /\ \A i \in 1..Len(upstreamCalls) : upstreamCalls[i].kind # "redirect"
  /\ storageAnswer = "redirect" =>
       /\ route \in {"face", "original-image"}
       /\ rPc = "responded"
       /\ rResponse = 500
       /\ rBody = "fixed"

C12_Witness ==
  /\ route = "original-image"
  /\ storageAnswer = "redirect"
  /\ rPc = "responded" /\ rResponse = 500

\* The storage path the original-image route may fetch for the session answer:
\* image_path with a leading '.' removed, when it has the shape
\* [.]/storage/original/<name>.jpg and holds neither '..' nor '//'.
fetchableImagePath(data) ==
  IF /\ data.isObject
     /\ data.image_path # undefined
     /\ LET path == data.image_path[1]
            q == IF Len(path) > 0 /\ path[1] = "." THEN Tail(path) ELSE path
            n == Len(txtStorageOriginal)
        IN /\ Len(q) > n + Len(txtDotJpg)
           /\ SubSeq(q, 1, n) = txtStorageOriginal
           /\ SubSeq(q, Len(q) - 3, Len(q)) = txtDotJpg
           /\ \A i \in (n + 1)..(Len(q) - 4) : q[i] \in WordChars \cup {"-", "/"}
           /\ ~includes(path, txtDotDot)
           /\ ~includes(path, txtSlashSlash)
    THEN some(IF data.image_path[1][1] = "." THEN Tail(data.image_path[1])
              ELSE data.image_path[1])
    ELSE undefined

\* C13: the original-image route issues a storage fetch only after the session
\* was fetched, and only for the path of the session's image_path (leading '.'
\* removed) when that path has the storage/original shape and holds neither
\* '..' nor '//'; when image_path is missing or refused the answer is 404 and
\* no storage fetch is issued.
C13_OriginalImagePath ==
  route = "original-image" =>
    /\ storageFetched =>
         /\ rSession # undefined
         /\ Len(upstreamCalls) = 2
         /\ upstreamCalls[1] = upstreamCall("session", reqUuid)
         /\ upstreamCalls[2].kind = "storage"
         /\ some(upstreamCalls[2].arg) = fetchableImagePath(rSession[1])
    /\ (rSession # undefined /\ fetchableImagePath(rSession[1]) = undefined) =>
         /\ rPc = "responded"
         /\ rResponse = 404
         /\ ~storageFetched

C13_Witness ==
  /\ route = "original-image"
  /\ rPc = "storage"
  /\ rSession # undefined /\ rSession[1].image_path = some(imgDotOk)
  /\ upstreamCalls[2].arg = Tail(imgDotOk)

\* An upstream request of the route has failed: the first request was issued
\* and brought no session answer, or the storage fetch brought no image.
upstreamFailed ==
  /\ rPc = "responded"
  /\ \/ upstreamCalls # <<>> /\ rSession = undefined
     \/ storageAnswer \in {"redirect", "error"}

\* C14: when an upstream request has failed, the client is answered with a
\* status of 400, 404 or 500 and a body that is not the body of the upstream
\* error response.
C14_SanitizedFailures ==
  upstreamFailed =>
    /\ rResponse \in {400, 404, 500}
    /\ rBody \in {"fixed", "message"}

\* C15: when upstream answers GET {base}/{uuid} with 404, the info, face and
\* original-image routes answer the client with 404.
C15_MissingSessionGives404 ==
  (rPc = "responded" /\ route \in {"info", "face", "original-image"}
     /\ sessionFailure = 404) => rResponse = 404

----------------------------------------------------------------------------
(* Claims about overlapping tasks, checked under SpecTasks *)

\* C16: whatever the user does and whenever the uploads and queries answer, no
\* two poll loops are in flight for the same session identifier.
C16_OneLoopPerSession ==
  \A t1, t2 \in 1..Len(tasks) :
    (t1 # t2 /\ inFlight(t1) /\ inFlight(t2)) => tasks[t1].uuid # tasks[t2].uuid

C16_Witness ==
  \E t1, t2 \in 1..Len(tasks) :
    /\ t1 # t2
    /\ tasks[t1].pc = "polling" /\ tasks[t2].pc = "polling"
    /\ tasks[t1].via = "retry" /\ tasks[t2].via = "retry"

\* C17: a poll loop that changes what is displayed belongs to the submission
\* started last: once a newer submission has been started (submit, a retry
\* that uploads, 'Upload new image'), the loop of an earlier one changes
\* nothing any more.
C17_LastSubmissionWins ==
  lastChange.by # 0 => lastChange.submission = lastChange.latest

\* A step in which the user invokes 'Try again'.
retryInvoked ==
  /\ Len(tasks') = Len(tasks) + 1
  /\ tasks'[Len(tasks')].via = "retry"

\* C18: whenever the error is displayed the 'Try again' button is displayed
\* with it and has something to act on; invoking it uploads the held file or
\* URL again when the input is still held (the upload, when it answers,
\* brings a session identifier no other task has, and a new poll loop), and
\* otherwise starts a new poll loop on the session identifier obtained before.
C18_RetryAvailable ==
  /\ [](errorShown => (retryShown /\ (cInputHeld \/ cSessionUuid # 0)))
  /\ [][retryInvoked =>
          /\ errorShown
          /\ LET new == tasks'[Len(tasks')]
             IN IF cInputHeld
                  THEN new.pc = "uploading" /\ new.kind = "upload"
                  ELSE new.pc = "polling" /\ new.uuid = cSessionUuid
                         /\ cSessionUuid # 0]_vars
  /\ [][\A t \in 1..Len(tasks) :
          (tasks[t].pc = "uploading" /\ tasks'[t].pc # "uploading") =>
             \/ tasks'[t].pc = "ended"
             \/ /\ tasks'[t].pc = "polling"
                /\ \A u \in 1..Len(tasks) : u # t => tasks'[u].uuid # tasks'[t].uuid]_vars

C18_Witness ==
  \E t \in 1..Len(tasks) :
    /\ tasks[t].via = "retry" /\ tasks[t].kind = "upload"
    /\ tasks[t].pc = "polling" /\ tasks[t].uuid = 1
    /\ cSessionUuid = 1 /\ cIsProcessing

----------------------------------------------------------------------------
(* Claims about failures of a submission, checked under SpecPoll *)

\* C19: when a submission or a retry has ended because the upload failed, a
\* status query or the session-info fetch failed, or polling ended without
\* results, the error is set and shown with the 'Try again' button.
C19_NoSilentFailure ==
  (pc = "idle" /\ outcome \in {"upload", "timeout", "failed", "threw", "silent"}) =>
    /\ error # "undefined"
    /\ ~isUploading /\ ~isProcessing
    /\ ~rendersResults

----------------------------------------------------------------------------
(* Claims about the API log, checked under SpecLog *)

\* C20: the log never holds more than 100 entries, and after n calls it holds
\* the min(n, 100) most recent calls, newest first: an entry added to a full
\* log evicts the oldest.
C20_LogKeepsNewest ==
  /\ Len(apiLogs) <= 100
  /\ Len(apiLogs) = IF logged < 100 THEN logged ELSE 100
  /\ \A i \in 1..Len(apiLogs) : apiLogs[i] = logged - i + 1

C20_Witness ==
  /\ logged = 102
  /\ Len(apiLogs) = 100
  /\ apiLogs[100] = 3

----------------------------------------------------------------------------
(* Claims about formatAnalysisResults, checked under SpecFormat *)

formatted == fPc = "returned"

\* The face of the scenario: ansamble 0.92, no key beginning with
\* is_real_model_, no verdict of upstream.
isAnsamble92Face(f) ==
  /\ f.ansamble = some(920)
  /\ DOMAIN f.is_real_model = {}
  /\ f.verdict = ""

\* C21, as the spec states it: a face with ansamble 0.92, no per-model score
\* fields and no upstream verdict is formatted with verdict 'Probably Real'
\* and exactly 10 modelProbabilities entries, each 0.5 real and 0.5 fake.
C21_AsStated ==
  formatted =>
    \A i \in 1..Len(fSession.faces) :
      (fSession.hasFaces /\ isAnsamble92Face(fSession.faces[i])) =>
        /\ fResults[i].verdict = "Probably Real"
        /\ Len(fResults[i].modelProbabilities) = 10
        /\ \A k \in 1..10 :
             /\ fResults[i].modelProbabilities[k].realProbability = 500
             /\ fResults[i].modelProbabilities[k].fakeProbability = 500

\* C21, amended: such a face is formatted with verdict 'Probably Real' and
\* with one modelProbabilities entry per metric of its metrics map, in order,
\* carrying the metric's name and probability; without metrics the list is
\* empty.
C21_Ansamble92Scenario ==
  formatted =>
    \A i \in 1..Len(fSession.faces) :
      (fSession.hasFaces /\ isAnsamble92Face(fSession.faces[i])) =>
        LET f == fSession.faces[i]
            ms == IF f.metrics = undefined THEN <<>> ELSE f.metrics[1]
            mp == fResults[i].modelProbabilities
        IN /\ fResults[i].verdict = "Probably Real"
           /\ Len(mp) = Len(ms)
           /\ \A k \in 1..Len(ms) :
                /\ mp[k].model[1] = ms[k].name
                /\ mp[k].realProbability = ms[k].probability
                /\ mp[k].realProbability + mp[k].fakeProbability = 1000

\* A face of the scenario without metrics has been formatted with an empty
\* list, and one with metrics with the entries of its metrics.
C21_Witness ==
  /\ formatted /\ fSession.hasFaces /\ Len(fSession.faces) = 2
  /\ isAnsamble92Face(fSession.faces[1]) /\ fSession.faces[1].metrics = undefined
  /\ isAnsamble92Face(fSession.faces[2]) /\ fSession.faces[2].metrics = some(metricsTwo)
  /\ fResults[1].verdict = "Probably Real" /\ fResults[1].modelProbabilities = <<>>
  /\ Len(fResults[2].modelProbabilities) = 2

\* The per-model fields is_real_model_1..is_real_model_10 a face carries.
modelFields(f) == DOMAIN f.is_real_model \cap 1..10

\* C22: a face carrying at least one but not all of is_real_model_1..10 is
\* formatted with exactly 10 modelProbabilities entries labelled 'Model 1' to
\* 'Model 10' in that order, with real probability 0.5 in every slot whose
\* field is absent and the field's value in every other slot.
C22_PartialModelFields ==
  formatted =>
    \A i \in 1..Len(fSession.faces) :
      LET f == fSession.faces[i]
          mp == fResults[i].modelProbabilities
      IN (fSession.hasFaces /\ modelFields(f) # {} /\ modelFields(f) # 1..10) =>
           /\ Len(mp) = 10
           /\ \A k \in 1..10 :
                /\ mp[k].model = <<"Model", k>>
                /\ k \in modelFields(f) => mp[k].realProbability = f.is_real_model[k]
                /\ k \notin modelFields(f) => mp[k].realProbability = 500

\* A face with is_real_model_3 and is_real_model_7 only has been formatted.
C22_Witness ==
  /\ formatted /\ fSession.hasFaces /\ Len(fSession.faces) >= 1
  /\ modelFields(fSession.faces[1]) = {3, 7}
  /\ Len(fResults[1].modelProbabilities) = 10
  /\ fResults[1].modelProbabilities[3].realProbability = modelScore(3)
  /\ fResults[1].modelProbabilities[4].realProbability = 500

\* C23: a payload with a face list of length n is formatted into exactly n
\* results, the result at position i (0-based) being derived from the face at
\* position i (its path, its ensemble score, its model entries and verdict)
\* and carrying faceIndex i + 1.
C23_OneResultPerFace ==
  (formatted /\ fSession.hasFaces) =>
    /\ Len(fResults) = Len(fSession.faces)
    /\ \A p \in 0..(Len(fSession.faces) - 1) :
         LET f == fSession.faces[p + 1]
             r == fResults[p + 1]
         IN /\ r.faceIndex = p + 1
            /\ r.facePath = IF f.face_path = undefined THEN <<>> ELSE f.face_path[1]
            /\ r.ensembleProbability.real =
                 IF f.ansamble # undefined THEN f.ansamble ELSE f.realProbability
            /\ r = formatFace(f, p)

\* Two different faces have been formatted, each at its own position.
C23_Witness ==
  /\ formatted /\ fSession.hasFaces /\ Len(fSession.faces) = 2
  /\ fSession.faces[1] = faceB /\ fSession.faces[2] = faceA
  /\ Len(fResults) = 2
  /\ fResults[1].faceIndex = 1 /\ fResults[1].facePath = pathFaces2
  /\ fResults[2].faceIndex = 2 /\ fResults[2].facePath = pathFaces3

\* The band of an ensemble score in thousandths, each boundary in the lower
\* band; a face without any score is in the last band.
verdictBand(x) ==
  IF x = undefined THEN "Likely Deepfake"
  ELSE IF x[1] \in 951..1000 THEN "Likely Real"
  ELSE IF x[1] \in 701..950 THEN "Probably Real"
  ELSE IF x[1] \in 301..700 THEN "Uncertain"
  ELSE IF x[1] \in 51..300 THEN "Probably Deepfake"
  ELSE "Likely Deepfake"

\* C24: the verdict of a formatted face is the face's own verdict string when
\* that string is non-empty; otherwise it is determined by ensembleReal alone
\* with strict thresholds (> 0.95 'Likely Real', > 0.7 'Probably Real',
\* > 0.3 'Uncertain', > 0.05 'Probably Deepfake', else 'Likely Deepfake'), so
\* that 0.95, 0.7, 0.3 and 0.05 each fall in the lower band.
C24_Verdict ==
  (formatted /\ fSession.hasFaces) =>
    \A i \in 1..Len(fSession.faces) :
      LET f == fSession.faces[i]
          r == fResults[i]
      IN /\ f.verdict # "" => r.verdict = f.verdict
         /\ f.verdict = "" => r.verdict = verdictBand(r.ensembleProbability.real)

\* The boundary scores 0.95 and 0.7 have been formatted without a verdict of
\* upstream.
C24_Witness ==
  /\ formatted /\ fSession.hasFaces /\ Len(fSession.faces) = 2
  /\ fSession.faces[1].verdict = "" /\ fSession.faces[1].ansamble = some(950)
  /\ fResults[1].verdict = "Probably Real"
  /\ fSession.faces[2].verdict = "" /\ fSession.faces[2].ansamble = some(700)
  /\ fResults[2].verdict = "Uncertain"

----------------------------------------------------------------------------
(* Claims about the upload answer, checked under SpecPoll *)

\* C25: when the upload response carries no session identifier the submission
\* fails with an upload error and no poll loop is started; a status query is
\* only ever issued for an identifier that a successful upload returned.
C25_PollOnlyAfterUuid ==
  /\ (uploadAnswer.kind # "none"
        /\ (uploadAnswer.uuid = undefined \/ uploadAnswer.uuid[1] = "")) =>
       /\ pc = "idle" /\ outcome = "upload"
       /\ error = "Error uploading image. Please try again."
       /\ queries = 0 /\ polledUuid = "null" /\ ~isProcessing
  /\ (queries > 0 \/ pc \in {"polling", "fetching"}) =>
       /\ polledUuid \notin {"null", ""}
       /\ polledUuid = sessionUuid
       /\ uploadAnswer.kind = "response" =>
            uploadAnswer.uuid # undefined /\ uploadAnswer.uuid[1] = polledUuid

\* An upload has been answered with a body that carries no uuid: the
\* submission has failed with the upload error and nothing is polled.
C25_Witness ==
  /\ uploadAnswer = [kind |-> "response", uuid |-> undefined]
  /\ outcome = "upload" /\ queries = 0 /\ pc = "idle"
  /\ error = "Error uploading image. Please try again."

----------------------------------------------------------------------------
(* Claims about the path of a face request, checked under SpecProxy *)

\* C26: the face endpoint answers 400, without contacting upstream, every
\* request whose literal path does not match the fixed template
\* /api/proofly/session/<36-character id>/face/<digits> or whose face index is
\* not a string of digits, and the path-shape test is made before any other
\* processing of the request.
C26_PathShapeGuard ==
  (route = "face" /\ rPc # "idle") =>
    /\ (~validPathRegex(reqPath) \/ ~isDigits(reqFaceId)) =>
         /\ rPc = "responded"
         /\ rResponse = 400
         /\ upstreamCalls = <<>>
    /\ rChecks[1].name = "path"

\* C27: the face crop the UI requests for the result displayed as 'Face N'
\* (face index N - 1) is resolved by the face endpoint to the face at position
\* N - 1 of the session's face list, for every session and every N.  Stated
\* for the faces whose crop the endpoint can serve at all.
C27_CropOfDisplayedFace ==
  (route = "face" /\ rPc \in {"storage", "responded"} /\ rSession # undefined
     /\ rSession[1].isObject /\ rSession[1].facesIsArray) =>
    \A N \in 1..Len(rSession[1].faces) :
      LET shown == rSession[1].faces[N]
      IN (/\ reqFaceId = faceImageFaceId(N)
          /\ \E n \in 0..9 : fetchableFace(shown, n)) =>
           targetFace = some(shown)

----------------------------------------------------------------------------
(* Claims about the end of a poll loop, checked under SpecPoll *)

\* C28: within one poll loop, once a status query has returned a terminal
\* status (completed, done, no faces found, failed) no further status query
\* is issued, and the session information is fetched at most once, only after
\* completed, done or no faces found, never after failed and never after a
\* timeout.
C28_TerminalEndsPolling ==
  /\ [](returned \in TerminalStatuses => pc # "polling")
  /\ [][(returned \in TerminalStatuses) => (queries' <= queries)]_vars
  /\ [](infoFetches <= 1)
  /\ [](infoFetches = 1 =>
          /\ returned \in {"completed", "done", "no faces found"}
          /\ outcome \notin {"timeout", "failed"})
  /\ [](outcome \in {"timeout", "failed"} => infoFetches = 0)
  /\ [][(infoFetches' > infoFetches) =>
          (returned' \in {"completed", "done", "no faces found"})]_vars

\* A loop has queried in-flight statuses, then 'done', has fetched the session
\* information once and has ended with the results.
C28_Witness ==
  /\ pc = "idle" /\ outcome = "results"
  /\ queries >= 2 /\ returned = "done" /\ infoFetches = 1

----------------------------------------------------------------------------
(* Claims about progress, checked under SpecPollFair *)

\* C29: after handleSubmit is invoked, whatever the selected tab, whether a
\* file is held and whether the URL is valid, the uploading indicator is
\* eventually cleared, provided every upload request and status query
\* eventually returns or fails.
C29_UploadingCleared == isUploading ~> ~isUploading

inLoop == pc \in {"polling", "fetching"}

\* C30: every poll loop terminates, provided each status query and the
\* session-info fetch eventually returns or fails: checkSessionStatus finishes
\* after at most 60 waits, and when it finishes the processing indicator is
\* cleared, whether it ended in results, in an error or in a timeout.
C30_LoopTerminates ==
  /\ inLoop ~> (~inLoop /\ ~isProcessing)
  /\ [](queries <= maxAttempts)
  /\ [][(inLoop /\ ~inLoop') => (~isProcessing' /\ pc' = "idle")]_vars

\* A loop has run to the limit of 60 queries and has ended in the timeout with
\* the indicator cleared.
C30_Witness ==
  /\ pc = "idle" /\ outcome = "timeout" /\ queries = maxAttempts /\ ~isProcessing

====
